---- MODULE Spec2Model ----
(***************************************************************************)
(* Phase-control core of the needle-position motor drive                   *)
(* (src/needle_position): zero-cross interrupt, TRIAC firing task, power   *)
(* mapper, main control loop, calibration and autotune routines and the    *)
(* web control surface.                                                    *)
(*                                                                         *)
(* Conventions                                                             *)
(*  - The runs are far shorter than the wrap-around of the tick counters,  *)
(*    so ticks_diff(a, b) is a - b.  utime.ticks_us() is the clock now_us. *)
(*  - On the millisecond clock every time stamp the code takes from        *)
(*    utime.ticks_ms() is held relative to the current time: the current   *)
(*    time is ticks_ms = 0, a stamp t is held as t - now, and Advance      *)
(*    moves every stamp back by the time that passes.  A stamp of which    *)
(*    the code only reads a bounded age stops at that age.                 *)
(*  - Python floats are fixed-point numbers with PScale fractional units   *)
(*    (power in 1/1000 percent, set-points in 1/1000 RPM); a division      *)
(*    truncates.                                                           *)
(*  - web_server.py reaches the flags of main.py as main_app.<name>; they  *)
(*    are modelled as the variables of main.py.  main.py binds the name    *)
(*    config at import (from config_manager import config) and main()      *)
(*    then calls load_config(), which rebinds config_manager.config: the   *)
(*    tasks of main.py read and write config, the web server reads and     *)
(*    writes config_manager_config.                                        *)
(*  - SpecFire is the interrupt/firing-task subsystem on the microsecond   *)
(*    clock; Spec is the cooperative tasks on the millisecond clock.       *)
(*  - In Spec a task runs at the instant its sleep ends (tasks due at the  *)
(*    same instant run in any order) and Advance lets time pass up to the  *)
(*    next such instant.  main() runs main_loop up to its first await,     *)
(*    then the tasks it created run in the order of their creation;        *)
(*    requests are served after that.                                      *)
(*  - A run of Spec serves at most MaxRequests control requests and sees   *)
(*    at most MaxPresses presses of the pedal; the integral of the PID     *)
(*    controller stays within MaxIntegral.                                 *)
(*  - The other specifications run the same tasks in other surroundings:   *)
(*    SpecParam with the handlers set_param and reboot_device, SpecTune    *)
(*    with a shaft that may stand still and the stop request, SpecPause    *)
(*    with PID mode configured and up to MaxPauseRequests calibration and  *)
(*    stop requests, SpecRamp with both modes and a pedal that moves       *)
(*    between ticks, SpecHeld in PID mode with a pedal held part way down. *)
(*    The status handler changes no state and is left out.                 *)
(*  - SpecMapper, SpecController and SpecSensor call the functions of the  *)
(*    power mapper, the PID controller and the speed sensor on their own:  *)
(*    the calls to be made are drawn at the start and made one by one.     *)
(*    There the functions that return int() of a float expression are      *)
(*    computed in binary floating point, with the 24-digit mantissa of     *)
(*    MicroPython on the Pico and with the 53-digit mantissa of a double.  *)
(*  - SpecStored runs the tasks and set_param on what load_config makes of *)
(*    a stored config.json (missing, invalid, or an object with some of    *)
(*    the keys).  SpecIrq runs calculate_rpm statement by statement with   *)
(*    the pulse interrupt arriving between any two of them; a run accepts  *)
(*    at most MaxPulses pulses.                                            *)
(*  - An absent object (Python None) is the empty tuple, a present one the *)
(*    tuple of its value.                                                  *)
(***************************************************************************)
EXTENDS Integers, Sequences, FiniteSets, TLC

VARIABLES
    \* motor_control.py globals
    motor_power_percent,        \* fixed point, PScale units per percent
    _target_triac_delay_us,
    triac_gate_pin,             \* level of the gate output, 0 or 1
    last_zero_cross_time_us,
    \* triac_firing_task locals and position
    current_cycle_zc_time,
    fire_at_us,
    fire_pc,                    \* "yield" | "l201" | "spin" | "pulse"
    fire_sleep_us,              \* rest of the task's asyncio.sleep_ms(1)
    latency_left_us,            \* rest of the run time of the running tick
    pulse_end_us,               \* end of fire_triac's sleep_us(50)
    \* environment and observation of the firing subsystem
    now_us,
    next_zc_us,                 \* time of the next mains zero crossing
    pulses_in_half_cycle,       \* gate rising edges since the last zero crossing
    pulses_since_set,           \* gate rising edges since the last set_motor_power
    \* main.py globals
    is_pedal_pressed,
    soft_start_active,
    current_soft_start_power,   \* fixed point
    target_rpm_setpoint,
    last_rpm,
    pid_controller,             \* None or <<the PID object>>
    last_pid_kp,
    last_pid_ki,
    last_pid_kd,
    max_rpm_calibration_active,
    autotune_active,
    autotune_stage,
    config,                     \* the dict main.py imported
    config_manager_config,      \* config_manager.config after main()'s load_config()
    \* sensor_manager.py globals
    current_rpm,
    _last_rpm_calc_time,
    \* the cooperative tasks: position, rest of the sleep, locals
    pc_main,                    \* "start" | "tick" | "stop_poll" | "aborted"
    main_sleep,
    stop_timeout,
    target_sensor_func,         \* "None" | "UP" | "DOWN"
    pc_cal,                     \* "created" | "loop" | "done"
    cal_sleep,
    cal,                        \* locals of run_max_rpm_calibration
    pc_tune,                    \* "created" | "sleep2" | "loop" | "done"
    tune_sleep,
    tune,                       \* locals of autotune_pid
    \* observation
    power_writer,               \* the task of the last set_motor_power call
    stop_latch,                 \* a force-stop was the last control request
    run_elapsed_ms,             \* time since a calibration start was accepted, or -1
    web_requests,               \* number of control requests served
    pedal_presses,              \* number of times the pedal went down
    press_ticks,                \* passes of the pedal-driven logic since the press
    \* the functions of the program called on their own
    pending_calls,              \* the calls still to be made, in order
    returned,                   \* the calls made so far with what they returned
    \* sensor_manager.py globals written by the pulse interrupt
    pulse_count,
    last_pulse_time,
    \* calculate_rpm and the pulses it has used
    pc_rpm,                     \* "idle", or "l71" between the read and the reset
    pulses_accepted,            \* pulses the interrupt handler has accepted
    pulses_sampled              \* pulses that went into a returned RPM sample

fireVars == <<last_zero_cross_time_us, current_cycle_zc_time, fire_at_us, fire_pc,
              fire_sleep_us, latency_left_us, pulse_end_us, now_us, next_zc_us,
              pulses_in_half_cycle>>

powerVars == <<motor_power_percent, _target_triac_delay_us, triac_gate_pin,
               pulses_since_set>>

mainVars == <<is_pedal_pressed, soft_start_active, current_soft_start_power,
              target_rpm_setpoint, last_rpm, pid_controller, last_pid_kp,
              last_pid_ki, last_pid_kd, pc_main, main_sleep, stop_timeout,
              target_sensor_func>>

flagVars == <<max_rpm_calibration_active, autotune_active, autotune_stage>>

configVars == <<config, config_manager_config>>

rpmVars == <<current_rpm, _last_rpm_calc_time>>

calVars == <<pc_cal, cal_sleep, cal>>

tuneVars == <<pc_tune, tune_sleep, tune>>

obsVars == <<power_writer, stop_latch, run_elapsed_ms, web_requests,
             pedal_presses, press_ticks>>

pulseVars == <<pulse_count, last_pulse_time, pc_rpm, pulses_accepted,
               pulses_sampled>>

callVars == <<pending_calls, returned, pulseVars>>

taskVars == <<mainVars, flagVars, configVars, rpmVars, calVars, tuneVars, obsVars>>

vars == <<fireVars, powerVars, taskVars, callVars>>

----------------------------------------------------------------------------
(* Bounds of the model *)

MaxTimeUs == 13000          \* horizon of the microsecond clock
MaxPulses == 3              \* pulses accepted by the interrupt handler
MaxLatencyUs == 50          \* run time of the statements of one firing tick
FirstZcUs == 1000           \* time of the first mains zero crossing
MaxAgeMs == 100             \* age at which a time stamp stops
RunElapsedCapMs == 100      \* value at which run_elapsed_ms stops
MaxRequests == 1            \* control requests served in a run
MaxPauseRequests == 2       \* control requests served in a run of SpecPause
MaxPresses == 1             \* presses of the pedal in a run
MaxIntegral == 100000       \* largest magnitude of the PID integral
RampSteps == 4              \* soft_start_ramp_steps of the config.json

(* Program constants *)

PScale == 1000
ac_half_cycle_time_us == 10000
min_fire_delay_us == 500
max_effective_delay_us == ac_half_cycle_time_us - 200
PulseWidthUs == 50
FireSleepUs == 1000
adc_max_value == 65535
PedalThreshold == 1000
RPM_POLES == 1
DebounceUs == 100
ticks_ms == 0

Min(a, b) == IF a <= b THEN a ELSE b
Max(a, b) == IF a >= b THEN a ELSE b

ticks_diff(a, b) == a - b

----------------------------------------------------------------------------
(* PowerMapper: set_motor_power *)

\* a clamp that lets a negative percent through
ClampPercent_upper_only(percent) == Min(100 * PScale, percent)

ClampPercent(percent) == Max(0, Min(100 * PScale, percent))

\* a dead zone that leaves 5% out
DeadZone_below5(percent) == ClampPercent(percent) < 5 * PScale

DeadZone(percent) == ClampPercent(percent) <= 5 * PScale

TargetDelay(percent) ==
    IF DeadZone(percent)
    THEN ac_half_cycle_time_us + 100
    ELSE min_fire_delay_us
         + ((max_effective_delay_us - min_fire_delay_us)
            * (100 * PScale - ClampPercent(percent))) \div (100 * PScale)

set_motor_power(percent) ==
    /\ motor_power_percent' = ClampPercent(percent)
    /\ _target_triac_delay_us' = TargetDelay(percent)
    /\ triac_gate_pin' = IF DeadZone(percent) THEN 0 ELSE triac_gate_pin
    /\ pulses_since_set' = 0

----------------------------------------------------------------------------
(* ZeroCrossMonitor and FiringScheduler *)

zero_cross_isr ==
    /\ now_us = next_zc_us
    /\ last_zero_cross_time_us' = now_us
    /\ next_zc_us' = now_us + ac_half_cycle_time_us
    /\ pulses_in_half_cycle' = 0
    /\ UNCHANGED <<current_cycle_zc_time, fire_at_us, fire_pc, fire_sleep_us,
                   latency_left_us, pulse_end_us, now_us, powerVars, taskVars, callVars>>

FiringEnabled ==
    /\ _target_triac_delay_us > 0
    /\ _target_triac_delay_us < ac_half_cycle_time_us

FireYield ==
    /\ fire_pc' = "yield"
    /\ fire_sleep_us' = FireSleepUs
    /\ latency_left_us' = 0
    /\ pulse_end_us' = 0

\* line 200: the task is resumed and compares the interrupt's timestamp
triac_firing_task_resume ==
    /\ fire_pc = "yield"
    /\ fire_sleep_us = 0
    /\ IF ticks_diff(last_zero_cross_time_us, current_cycle_zc_time) > 0
       THEN /\ fire_pc' = "l201"
            /\ latency_left_us' = MaxLatencyUs
            /\ UNCHANGED <<fire_sleep_us, pulse_end_us, triac_gate_pin>>
       ELSE /\ triac_gate_pin' = 0
            /\ FireYield
    /\ UNCHANGED <<last_zero_cross_time_us, current_cycle_zc_time, fire_at_us,
                   now_us, next_zc_us, pulses_in_half_cycle,
                   motor_power_percent, _target_triac_delay_us, pulses_since_set,
                   taskVars, callVars>>

\* lines 201-207 and 215-218
triac_firing_task_reference ==
    /\ fire_pc = "l201"
    /\ current_cycle_zc_time' = last_zero_cross_time_us
    /\ fire_at_us' = last_zero_cross_time_us + _target_triac_delay_us
    /\ IF FiringEnabled
       THEN /\ fire_pc' = "spin"
            /\ UNCHANGED <<fire_sleep_us, latency_left_us, pulse_end_us,
                           triac_gate_pin>>
       ELSE /\ triac_gate_pin' = 0
            /\ FireYield
    /\ UNCHANGED <<last_zero_cross_time_us, now_us,
                   next_zc_us, pulses_in_half_cycle, motor_power_percent,
                   _target_triac_delay_us, pulses_since_set, taskVars, callVars>>

\* lines 210-214 and 119-121: the spin-wait ends and the gate goes high
fire_triac ==
    /\ fire_pc = "spin"
    /\ ~(ticks_diff(fire_at_us, now_us) > 0)
    /\ triac_gate_pin' = 1
    /\ pulse_end_us' = now_us + PulseWidthUs
    /\ fire_pc' = "pulse"
    /\ pulses_in_half_cycle' = pulses_in_half_cycle + 1
    /\ pulses_since_set' = pulses_since_set + 1
    /\ latency_left_us' = 0
    /\ UNCHANGED <<last_zero_cross_time_us, current_cycle_zc_time, fire_at_us,
                   fire_sleep_us, now_us, next_zc_us,
                   motor_power_percent, _target_triac_delay_us, taskVars, callVars>>

\* fire_triac without line 122: the gate is left high when the task yields
fire_triac_end_gate_left_high ==
    /\ fire_pc = "pulse"
    /\ now_us >= pulse_end_us
    /\ FireYield
    /\ UNCHANGED <<last_zero_cross_time_us, current_cycle_zc_time, fire_at_us,
                   now_us, next_zc_us, triac_gate_pin,
                   pulses_in_half_cycle, motor_power_percent,
                   _target_triac_delay_us, pulses_since_set, taskVars, callVars>>

\* line 122, then the task's sleep_ms(1)
fire_triac_end ==
    /\ fire_pc = "pulse"
    /\ now_us >= pulse_end_us
    /\ triac_gate_pin' = 0
    /\ FireYield
    /\ UNCHANGED <<last_zero_cross_time_us, current_cycle_zc_time, fire_at_us,
                   now_us, next_zc_us,
                   pulses_in_half_cycle, motor_power_percent,
                   _target_triac_delay_us, pulses_since_set, taskVars, callVars>>

----------------------------------------------------------------------------
(* The microsecond clock.  Time stops at the next zero crossing until the   *)
(* interrupt has run.  A suspended firing task is resumed when its sleep    *)
(* has elapsed, or later, as the other cooperative tasks let it.  A running *)
(* tick spins until fire_at_us, holds the gate for the pulse width, and     *)
(* takes at most MaxLatencyUs for its other statements.                     *)

TimeSteps == {PulseWidthUs, FireSleepUs}

Spinning == fire_pc = "spin" /\ ticks_diff(fire_at_us, now_us) > 0

RunLimitUs ==
    CASE fire_pc = "yield" -> MaxTimeUs
      [] fire_pc = "pulse" -> pulse_end_us
      [] Spinning          -> fire_at_us
      [] OTHER             -> now_us + latency_left_us

TimeLimitUs == Min(Min(next_zc_us, MaxTimeUs), RunLimitUs)

AdvanceUs ==
    /\ now_us < TimeLimitUs
    /\ \E d \in TimeSteps :
         LET t == Min(now_us + d, TimeLimitUs) IN
         /\ now_us' = t
         /\ fire_sleep_us' = Max(0, fire_sleep_us - (t - now_us))
         /\ latency_left_us' =
               IF fire_pc \in {"l201", "spin"} /\ ~Spinning
               THEN latency_left_us - (t - now_us)
               ELSE latency_left_us
    /\ UNCHANGED <<last_zero_cross_time_us, current_cycle_zc_time, fire_at_us,
                   fire_pc, pulse_end_us, next_zc_us, pulses_in_half_cycle,
                   powerVars, taskVars, callVars>>

\* a cooperative task runs while the firing task is suspended and commands a power
PowerInputs == {5 * PScale, 5 * PScale + 1, 50 * PScale, 150 * PScale, -1 * PScale}

PowerCommand ==
    /\ fire_pc = "yield"
    /\ \E p \in PowerInputs : set_motor_power(p)
    /\ UNCHANGED <<fireVars, taskVars, callVars>>

----------------------------------------------------------------------------
(* Fixed-point arithmetic *)

\* a * b / c, rounded down, without the intermediate product a * b
MulDiv(a, b, c) == (a \div c) * b + ((a % c) * b) \div c

\* a / b rounded to the nearest integer (round(x, 3) of a fixed-point value)
RoundDiv(a, b) == (2 * a + b) \div (2 * b)

----------------------------------------------------------------------------
(* Binary floating point.  A float of the interpreter is 0 or m * 2^e with  *)
(* a mantissa m of exactly `bits` binary digits, held as the sequence of    *)
(* its digits from the most significant one.  Every operation rounds its    *)
(* exact result to the nearest float, a tie to the even mantissa.           *)

\* mantissa widths: MicroPython on the RP2040 has single-precision floats,
\* a port built with double precision has 53 digits
MantissaBits == {24, 53}

FloatZero == [ m |-> <<>>, e |-> 0 ]

\* digit sequences are worked on in groups of 12 digits
LimbBits == 12
LimbBase == 4096

Zeros(n) == [ i \in 1 .. n |-> 0 ]

AnyOne(b) == \E i \in 1 .. Len(b) : b[i] = 1

\* the digits of a natural number below 2^30
RECURSIVE BitsOfNat(_)
BitsOfNat(n) == IF n = 0 THEN <<>> ELSE Append(BitsOfNat(n \div 2), n % 2)

\* the number of at most 30 digits
RECURSIVE NatOfBits(_)
NatOfBits(b) ==
    IF b = <<>> THEN 0
    ELSE 2 * NatOfBits(SubSeq(b, 1, Len(b) - 1)) + b[Len(b)]

StripZeros(b) ==
    LET ones == { i \in 1 .. Len(b) : b[i] = 1 }
    IN  IF ones = {} THEN <<>>
        ELSE SubSeq(b, CHOOSE i \in ones : \A j \in ones : i <= j, Len(b))

\* the 12 digits of a group
LimbDigits(v) == Zeros(LimbBits - Len(BitsOfNat(v))) \o BitsOfNat(v)

\* the groups of a digit sequence, the most significant first
LimbsOfBits(b) ==
    LET n == (Len(b) + LimbBits - 1) \div LimbBits
        padded == Zeros(LimbBits * n - Len(b)) \o b
    IN  [ j \in 1 .. n |->
            NatOfBits(SubSeq(padded, LimbBits * (j - 1) + 1, LimbBits * j)) ]

\* a + b + carry on groups, as digits
RECURSIVE AddLimbs(_, _, _)
AddLimbs(a, b, carry) ==
    IF a = <<>> /\ b = <<>> THEN BitsOfNat(carry)
    ELSE LET x == IF a = <<>> THEN 0 ELSE a[Len(a)]
             y == IF b = <<>> THEN 0 ELSE b[Len(b)]
             fa == IF a = <<>> THEN a ELSE SubSeq(a, 1, Len(a) - 1)
             fb == IF b = <<>> THEN b ELSE SubSeq(b, 1, Len(b) - 1)
             t == x + y + carry
         IN  AddLimbs(fa, fb, t \div LimbBase) \o LimbDigits(t % LimbBase)

AddBits(a, b) == AddLimbs(LimbsOfBits(a), LimbsOfBits(b), 0)

\* l * k + carry on groups for a natural number k below 2^18, as digits
RECURSIVE MulLimbs(_, _, _)
MulLimbs(l, k, carry) ==
    IF l = <<>> THEN BitsOfNat(carry)
    ELSE LET t == l[Len(l)] * k + carry
         IN  MulLimbs(SubSeq(l, 1, Len(l) - 1), k, t \div LimbBase)
                 \o LimbDigits(t % LimbBase)

MulBits(b, k) == MulLimbs(LimbsOfBits(b), k, 0)

\* b + 1 on digits
Successor(b) ==
    LET zeros == { i \in 1 .. Len(b) : b[i] = 0 }
    IN  IF zeros = {} THEN <<1>> \o Zeros(Len(b))
        ELSE LET z == CHOOSE i \in zeros : \A j \in zeros : i >= j
             IN  SubSeq(b, 1, z - 1) \o <<1>> \o Zeros(Len(b) - z)

\* the float nearest to digits * 2^e, where `sticky` says that the exact value
\* lies above digits * 2^e by less than one unit of the last digit
FloatRound(digits, e, sticky, bits) ==
    LET d == StripZeros(digits)
        n == Len(d)
    IN  IF n = 0 THEN FloatZero
        ELSE IF n <= bits THEN [ m |-> d \o Zeros(bits - n), e |-> e - (bits - n) ]
        ELSE LET keep == SubSeq(d, 1, bits)
                 rest == SubSeq(d, bits + 1, n)
                 more == sticky \/ AnyOne(Tail(rest))
                 up == rest[1] = 1 /\ (more \/ keep[bits] = 1)
                 sum == IF up THEN Successor(keep) ELSE keep
             IN  IF Len(sum) > bits
                 THEN [ m |-> SubSeq(sum, 1, bits), e |-> e + (n - bits) + 1 ]
                 ELSE [ m |-> sum, e |-> e + (n - bits) ]

\* n groups of digits after the point of r / b, and the remainder they
\* leave, for r < b < 2^19
RECURSIVE FractionBits(_, _, _)
FractionBits(r, b, n) ==
    IF n = 0 THEN <<>>
    ELSE LimbDigits((r * LimbBase) \div b)
             \o FractionBits((r * LimbBase) % b, b, n - 1)

RECURSIVE FractionRest(_, _, _)
FractionRest(r, b, n) ==
    IF n = 0 THEN r ELSE FractionRest((r * LimbBase) % b, b, n - 1)

\* the natural number a as a float
FloatOfNat(a, bits) == FloatRound(BitsOfNat(a), 0, FALSE, bits)

\* a / b for natural numbers a < 2^30 and 0 < b < 2^19
FloatDivNat(a, b, bits) ==
    LET n == (bits + 22) \div LimbBits + 1
    IN  FloatRound(BitsOfNat(a \div b) \o FractionBits(a % b, b, n),
                   -(LimbBits * n), FractionRest(a % b, b, n) > 0, bits)

\* x * k for a float x and a natural number k below 2^18
FloatMulNat(x, k, bits) == FloatRound(MulBits(x.m, k), x.e, FALSE, bits)

\* x + c for a float x below 2^20 and a natural number c below 2^20
FloatAddNat(x, c, bits) ==
    IF x.m = <<>> THEN FloatOfNat(c, bits)
    ELSE IF x.e >= 0
    THEN FloatRound(AddBits(x.m \o Zeros(x.e), BitsOfNat(c)), 0, FALSE, bits)
    ELSE FloatRound(AddBits(x.m, BitsOfNat(c) \o Zeros(-x.e)), x.e, FALSE, bits)

\* int(x) for a float x >= 0 below 2^30
FloatInt(x) ==
    IF x.m = <<>> THEN 0
    ELSE IF x.e >= 0 THEN NatOfBits(x.m \o Zeros(x.e))
    ELSE IF Len(x.m) + x.e <= 0 THEN 0
    ELSE NatOfBits(SubSeq(x.m, 1, Len(x.m) + x.e))

----------------------------------------------------------------------------
(* Configuration: config_manager.DEFAULT_CONFIG; gains in 1/PScale *)

DEFAULT_CONFIG ==
    [ max_rpm_setting |-> 500,
      soft_start_time_step_ms |-> 20,
      soft_start_ramp_steps |-> 50,
      stop_position_default |-> "DOWN",
      calibrated_motor_power_free_running_percent |-> 80,
      calibrated_motor_power_load_offset_percent |-> 10,
      max_motor_rpm |-> 2000,
      pid_enabled |-> FALSE,
      kp |-> 500,
      ki |-> 10,
      kd |-> 50,
      autotune_target_rpm |-> 300,
      autotune_power_high |-> 70,
      autotune_power_low |-> 30 ]

\* load_config without the merge with the defaults
load_config_no_merge(stored) ==
    IF stored.kind # "object" THEN DEFAULT_CONFIG ELSE stored.object

\* load_config lines 39-55: the configuration bound to config for the stored
\* config.json, which is missing, not JSON, or a JSON object
load_config(stored) ==
    IF stored.kind # "object"
    THEN DEFAULT_CONFIG
    ELSE [ key \in DOMAIN DEFAULT_CONFIG \cup DOMAIN stored.object |->
             IF key \in DOMAIN stored.object
             THEN stored.object[key] ELSE DEFAULT_CONFIG[key] ]

\* stored configurations: no file, a file that is not JSON, an empty object,
\* objects that lack keys, an object with every key
StoredFiles ==
    { [ kind |-> "missing", object |-> <<>> ],
      [ kind |-> "invalid", object |-> <<>> ],
      [ kind |-> "object", object |-> <<>> ],
      [ kind |-> "object", object |-> [ soft_start_ramp_steps |-> RampSteps ] ],
      [ kind |-> "object",
        object |-> [ soft_start_ramp_steps |-> RampSteps, pid_enabled |-> TRUE,
                     max_rpm_setting |-> 300 ] ],
      [ kind |-> "object",
        object |-> [ DEFAULT_CONFIG EXCEPT !.stop_position_default = "UP" ] ] }

\* the contents of config.json at power-up, after load_config's merge
ConfigFiles == {[ DEFAULT_CONFIG EXCEPT !.soft_start_ramp_steps = RampSteps ]}

\* the config.json with the PID mode enabled by a parameter write
PidConfigFiles ==
    {[ DEFAULT_CONFIG EXCEPT !.soft_start_ramp_steps = RampSteps,
                             !.pid_enabled = TRUE ]}

----------------------------------------------------------------------------
(* SpeedSensor: calculate_rpm.  The pulses the interrupt handler accepted   *)
(* since the previous call are an input of the call.                        *)

PulseInputs == {1}

\* the pulse counts of a shaft that may stand still between two calls
TunePulseInputs == {0, 1}

RpmValue(pulses, time_since_last_call_ms) ==
    IF time_since_last_call_ms > 0
    THEN (pulses * 1000 * 60) \div (time_since_last_call_ms * RPM_POLES)
    ELSE 0

\* the value calculate_rpm returns when the previous call was at stamp `last`
calculate_rpm(pulses, last) ==
    RpmValue(pulses, ticks_diff(ticks_ms, last))

----------------------------------------------------------------------------
(* PIDController *)

PID(kp, ki, kd) ==
    [ kp |-> kp, ki |-> ki, kd |-> kd,
      _prev_error |-> 0, _integral |-> 0, _last_time |-> ticks_ms,
      _soft_start_current_setpoint |-> 0 ]

\* a reset that leaves the soft-start set-point
PID_reset_keeps_setpoint(pid) ==
    [ pid EXCEPT !._prev_error = 0, !._integral = 0, !._last_time = ticks_ms ]

PID_reset(pid) ==
    [ pid EXCEPT !._prev_error = 0, !._integral = 0, !._last_time = ticks_ms,
                 !._soft_start_current_setpoint = 0 ]

\* PID.update without the clamp of the output
PID_update_unclamped(pid, setpoint, current_value) ==
    LET dt_ms == ticks_diff(ticks_ms, pid._last_time)
        error == setpoint - current_value
        integral == pid._integral + MulDiv(error, dt_ms, 1000)
        p_term == MulDiv(error, pid.kp, PScale)
        i_term == MulDiv(integral, pid.ki, PScale)
        d_term == MulDiv(error - pid._prev_error, pid.kd, dt_ms)
        output == p_term + i_term + d_term
    IN  IF dt_ms = 0
        THEN <<pid._prev_error, pid>>
        ELSE <<output,
               [ pid EXCEPT !._integral = integral, !._prev_error = error,
                            !._last_time = ticks_ms ]>>

\* PID.update that stores the error when no time has passed
PID_update_stores_at_zero_dt(pid, setpoint, current_value) ==
    LET dt_ms == ticks_diff(ticks_ms, pid._last_time)
        error == setpoint - current_value
        integral == pid._integral + MulDiv(error, dt_ms, 1000)
        p_term == MulDiv(error, pid.kp, PScale)
        i_term == MulDiv(integral, pid.ki, PScale)
        d_term == MulDiv(error - pid._prev_error, pid.kd, dt_ms)
        output == p_term + i_term + d_term
    IN  IF dt_ms = 0
        THEN <<pid._prev_error, [ pid EXCEPT !._prev_error = error ]>>
        ELSE <<Max(0, Min(100 * PScale, output)),
               [ pid EXCEPT !._integral = integral, !._prev_error = error,
                            !._last_time = ticks_ms ]>>

\* PID.update: <<returned value, controller after the call>>; set-point and
\* measurement in 1/PScale RPM, the time step in milliseconds
PID_update(pid, setpoint, current_value) ==
    LET dt_ms == ticks_diff(ticks_ms, pid._last_time)
        error == setpoint - current_value
        integral == pid._integral + MulDiv(error, dt_ms, 1000)
        p_term == MulDiv(error, pid.kp, PScale)
        i_term == MulDiv(integral, pid.ki, PScale)
        d_term == MulDiv(error - pid._prev_error, pid.kd, dt_ms)
        output == p_term + i_term + d_term
    IN  IF dt_ms = 0
        THEN <<pid._prev_error, pid>>
        ELSE <<Max(0, Min(100 * PScale, output)),
               [ pid EXCEPT !._integral = integral, !._prev_error = error,
                            !._last_time = ticks_ms ]>>

----------------------------------------------------------------------------
(* PowerMapper: pedal mappings *)

PedalInputs == {0, 65535}

\* the pedal at rest, half way down and fully down
RampPedalInputs == {0, 33268, 65535}

\* the pedal at rest and held at 60% of its usable range
HeldPedalInputs == {0, 39721}

\* the pedal reading over the whole range of the converter
NormalizedPedal_whole_range(pedal_value) ==
    Max(0, Min(PScale, (pedal_value * PScale) \div adc_max_value))

\* (pedal_value - 1000) / (adc_max_value - 1000), clamped to [0, 1]
NormalizedPedal(pedal_value) ==
    Max(0, Min(PScale, ((pedal_value - 1000) * PScale) \div (adc_max_value - 1000)))

get_target_rpm_from_pedal(pedal_value, max_rpm_setting, max_motor_rpm) ==
    IF pedal_value < 1000
    THEN 0
    ELSE Min((NormalizedPedal(pedal_value) * max_rpm_setting) \div PScale,
             max_motor_rpm)

\* the open-loop target without the cap at 100%
OpenLoopTargetPower_uncapped(pedal_value, cfg) ==
    LET max_effective_power_setting ==
            cfg.calibrated_motor_power_free_running_percent
            + cfg.calibrated_motor_power_load_offset_percent
        scaled == NormalizedPedal(pedal_value) * max_effective_power_setting
    IN  Min(scaled, max_effective_power_setting * PScale)

\* main_loop lines 308-319: current_target_power_percent
OpenLoopTargetPower(pedal_value, cfg) ==
    LET max_effective_power_setting ==
            cfg.calibrated_motor_power_free_running_percent
            + cfg.calibrated_motor_power_load_offset_percent
        scaled == NormalizedPedal(pedal_value) * max_effective_power_setting
    IN  Min(Min(scaled, max_effective_power_setting * PScale), 100 * PScale)

----------------------------------------------------------------------------
(* The cooperative tasks on the millisecond clock *)

None == <<>>

StopPowerPercent == 5
StopTimeoutMs == 5000
StopPollMs == 50
MainSleepMs == 20
RunSleepMs == 20
WaitSleepMs == 100

\* set_motor_power called by task `who`
SetPower(who, percent) ==
    /\ set_motor_power(percent)
    /\ power_writer' = who

\* main() has created the tasks and each has run up to its first await
Started ==
    /\ pc_main \notin {"start", "aborted"}
    /\ pc_cal # "created"
    /\ pc_tune # "created"

\* the test of line 256 alone
GainsChanged_first_tick_only ==
    pid_controller = None

\* lines 256-259
GainsChanged ==
    \/ pid_controller = None
    \/ <<config.kp>> # last_pid_kp
    \/ <<config.ki>> # last_pid_ki
    \/ <<config.kd>> # last_pid_kd

\* lines 262-263: the controller the pedal-driven logic of this tick works on
TickController ==
    IF GainsChanged
    THEN PID_reset(PID(config.kp, config.ki, config.kd))
    ELSE pid_controller[1]

\* lines 345-355
TargetSensor == IF config.stop_position_default = "DOWN" THEN "DOWN" ELSE "UP"

\* a poll that takes either sensor
SensorStatus_either(sensor, needle_up, needle_down) == needle_up \/ needle_down

\* target_sensor_func()
SensorStatus(sensor, needle_up, needle_down) ==
    IF sensor = "DOWN" THEN needle_down ELSE needle_up

\* the sensor-polling loop without its timeout
StopLoopContinues_sensor_only(sensor_status, timeout) ==
    ~sensor_status

\* line 361: the condition of the sensor-polling loop
StopLoopContinues(sensor_status, timeout) ==
    ~sensor_status /\ ticks_diff(ticks_ms, timeout) < 0

\* a soft start that is in effect in every pass with the pedal down
SoftStartInEffect_every_pass == TRUE

\* lines 273-276 with 289 and 321: the pass takes the soft-start branch when
\* the pedal has just gone down or the flag is still set
SoftStartInEffect == ~is_pedal_pressed \/ soft_start_active

\* the ramp value without the test of lines 294 and 325
RampClamp_none(stepped, target) == stepped

\* lines 294-295 and 325-326: the ramp value stops at the target
RampClamp(stepped, target) == IF stepped >= target THEN target ELSE stepped

\* lines 272-333: the pedal is pressed.  The result of the tick as a record:
\* soft-start flag, open-loop ramp value, controller, commanded power, sleep.
PressedTick(pedal_value, rpm) ==
    LET just_pressed == ~is_pedal_pressed
        pid0 == TickController
        pid1 == IF just_pressed /\ config.pid_enabled THEN PID_reset(pid0) ELSE pid0
        ss0 == SoftStartInEffect
        power0 == IF just_pressed THEN 0 ELSE current_soft_start_power
        target == get_target_rpm_from_pedal(pedal_value, config.max_rpm_setting,
                                            config.max_motor_rpm)
        \* PID path, lines 289-305
        rpm_increment_per_step ==
            (config.max_rpm_setting * PScale) \div config.soft_start_ramp_steps
        ramped == pid1._soft_start_current_setpoint + rpm_increment_per_step
        pid_reached == ramped >= target * PScale
        setpoint == RampClamp(ramped, target * PScale)
        pid2 == [pid1 EXCEPT !._soft_start_current_setpoint = setpoint]
        soft == PID_update(pid2, setpoint, rpm * PScale)
        run == PID_update(pid1, target * PScale, rpm * PScale)
        \* open-loop path, lines 308-333
        current_target_power_percent == OpenLoopTargetPower(pedal_value, config)
        power_increment_per_step ==
            current_target_power_percent \div config.soft_start_ramp_steps
        stepped == power0 + power_increment_per_step
        reached == stepped >= current_target_power_percent
        power1 == RampClamp(stepped, current_target_power_percent)
    IN  IF config.pid_enabled
        THEN IF ss0
             THEN [ soft_start |-> ~pid_reached, ramp |-> power0, pid |-> soft[2],
                    power |-> soft[1], target |-> target,
                    sleep |-> config.soft_start_time_step_ms + MainSleepMs ]
             ELSE [ soft_start |-> FALSE, ramp |-> power0, pid |-> run[2],
                    power |-> run[1], target |-> target,
                    sleep |-> RunSleepMs + MainSleepMs ]
        ELSE IF ss0
             THEN [ soft_start |-> ~reached, ramp |-> power1, pid |-> pid1,
                    power |-> power1, target |-> target,
                    sleep |-> config.soft_start_time_step_ms + MainSleepMs ]
             ELSE [ soft_start |-> FALSE, ramp |-> power0, pid |-> pid1,
                    power |-> current_target_power_percent, target |-> target,
                    sleep |-> MainSleepMs ]

\* lines 238-252: a calibration or autotune flag is set
main_loop_wait(rpm) ==
    /\ last_rpm' = rpm
    /\ current_rpm' = rpm
    /\ _last_rpm_calc_time' = ticks_ms
    /\ SetPower("main", 0)
    /\ pc_main' = "tick"
    /\ main_sleep' = WaitSleepMs
    /\ UNCHANGED <<is_pedal_pressed, soft_start_active, current_soft_start_power,
                   target_rpm_setpoint, pid_controller, last_pid_kp, last_pid_ki,
                   last_pid_kd, stop_timeout, target_sensor_func>>

main_loop_gains ==
    /\ last_pid_kp' = <<config.kp>>
    /\ last_pid_ki' = <<config.ki>>
    /\ last_pid_kd' = <<config.kd>>

main_loop_pressed(rpm, pedal_value) ==
    LET r == PressedTick(pedal_value, rpm) IN
    /\ r.pid._integral \in -MaxIntegral .. MaxIntegral
    /\ last_rpm' = rpm
    /\ current_rpm' = rpm
    /\ _last_rpm_calc_time' = ticks_ms
    /\ main_loop_gains
    /\ is_pedal_pressed' = TRUE
    /\ soft_start_active' = r.soft_start
    /\ current_soft_start_power' = r.ramp
    /\ target_rpm_setpoint' = r.target
    /\ pid_controller' = <<r.pid>>
    /\ SetPower("main", r.power)
    /\ pc_main' = "tick"
    /\ main_sleep' = r.sleep
    /\ UNCHANGED <<stop_timeout, target_sensor_func>>

\* lines 290 and 322: the division by soft_start_ramp_steps in a soft-start
\* tick raises ZeroDivisionError
RampDivisionRaises ==
    /\ ~is_pedal_pressed \/ soft_start_active
    /\ config.soft_start_ramp_steps = 0

\* lines 272-285, then the exception leaves main_loop, main() and
\* asyncio.run(); the finally clause of lines 405-407 zeroes the power and the
\* program ends with all its tasks
main_loop_abort(rpm, pedal_value) ==
    /\ last_rpm' = rpm
    /\ current_rpm' = rpm
    /\ _last_rpm_calc_time' = ticks_ms
    /\ main_loop_gains
    /\ is_pedal_pressed' = TRUE
    /\ soft_start_active' = TRUE
    /\ current_soft_start_power' =
           IF is_pedal_pressed THEN current_soft_start_power ELSE 0
    /\ target_rpm_setpoint' =
           get_target_rpm_from_pedal(pedal_value, config.max_rpm_setting,
                                     config.max_motor_rpm)
    /\ pid_controller' =
           <<IF ~is_pedal_pressed /\ config.pid_enabled
             THEN PID_reset(TickController) ELSE TickController>>
    /\ SetPower("main", 0)
    /\ pc_main' = "aborted"
    /\ main_sleep' = 0
    /\ UNCHANGED <<stop_timeout, target_sensor_func>>

\* lines 336-371, up to the first await of the sensor-polling loop or past it
main_loop_released(rpm, needle_up, needle_down) ==
    LET timeout == ticks_ms + StopTimeoutMs
        polling == StopLoopContinues(
                       SensorStatus(TargetSensor, needle_up, needle_down), timeout)
    IN
    /\ main_loop_gains
    /\ is_pedal_pressed' = FALSE
    /\ soft_start_active' = FALSE
    /\ pid_controller' = <<PID_reset(TickController)>>
    /\ _last_rpm_calc_time' = ticks_ms
    /\ IF polling
       THEN /\ last_rpm' = calculate_rpm(0, ticks_ms)
            /\ current_rpm' = calculate_rpm(0, ticks_ms)
            /\ SetPower("main", StopPowerPercent * PScale)
            /\ pc_main' = "stop_poll"
            /\ main_sleep' = StopPollMs
            /\ stop_timeout' = timeout
            /\ target_sensor_func' = TargetSensor
       ELSE /\ last_rpm' = rpm
            /\ current_rpm' = rpm
            /\ SetPower("main", 0)
            /\ pc_main' = "tick"
            /\ main_sleep' = MainSleepMs
            /\ UNCHANGED <<stop_timeout, target_sensor_func>>
    /\ UNCHANGED <<current_soft_start_power, target_rpm_setpoint>>

\* lines 372-375
main_loop_idle(rpm) ==
    /\ last_rpm' = rpm
    /\ current_rpm' = rpm
    /\ _last_rpm_calc_time' = ticks_ms
    /\ main_loop_gains
    /\ pid_controller' = <<TickController>>
    /\ SetPower("main", 0)
    /\ pc_main' = "tick"
    /\ main_sleep' = MainSleepMs
    /\ UNCHANGED <<is_pedal_pressed, soft_start_active, current_soft_start_power,
                   target_rpm_setpoint, stop_timeout, target_sensor_func>>

\* the statements of one pass of the while loop of main_loop for the values
\* read from the speed sensor, the pedal and the two needle sensors
main_loop_pass(pulses, pedal_value, needle_up, needle_down) ==
    LET rpm == calculate_rpm(pulses, _last_rpm_calc_time)
        pressing == /\ ~(max_rpm_calibration_active \/ autotune_active)
                    /\ pedal_value > PedalThreshold
                    /\ ~is_pedal_pressed
    IN
    /\ pressing => pedal_presses < MaxPresses
    /\ pedal_presses' = IF pressing THEN pedal_presses + 1 ELSE pedal_presses
    /\ press_ticks' =
           IF max_rpm_calibration_active \/ autotune_active THEN press_ticks
           ELSE IF pedal_value <= PedalThreshold THEN 0
           ELSE IF ~is_pedal_pressed THEN 1
           ELSE Min(press_ticks + 1, config.soft_start_ramp_steps + 1)
    /\ IF max_rpm_calibration_active \/ autotune_active
       THEN main_loop_wait(rpm)
       ELSE IF pedal_value > PedalThreshold
            THEN IF RampDivisionRaises
                 THEN main_loop_abort(rpm, pedal_value)
                 ELSE main_loop_pressed(rpm, pedal_value)
            ELSE IF is_pedal_pressed
                 THEN main_loop_released(rpm, needle_up, needle_down)
                 ELSE main_loop_idle(rpm)

\* one pass of the while loop of main_loop, from line 235 to its next await,
\* with the sensor pulses drawn from Pulses and the pedal readings from Pedals
main_loop_tick(Pulses, Pedals) ==
    /\ pc_main \in {"start", "tick"}
    /\ pc_main = "tick" => Started
    /\ main_sleep = 0
    /\ \E pulses \in Pulses, pedal_value \in Pedals,
          needle_up \in BOOLEAN, needle_down \in BOOLEAN :
         main_loop_pass(pulses, pedal_value, needle_up, needle_down)
    /\ UNCHANGED <<fireVars, callVars, flagVars, configVars, calVars, tuneVars,
                   stop_latch, run_elapsed_ms, web_requests>>

main_loop == main_loop_tick(PulseInputs, PedalInputs)

\* lines 361-371: the sensor-polling loop after its await
main_loop_stop_poll_pass(pulses, needle_up, needle_down) ==
    IF StopLoopContinues(
           SensorStatus(target_sensor_func, needle_up, needle_down),
           stop_timeout)
    THEN /\ last_rpm' = calculate_rpm(pulses, _last_rpm_calc_time)
         /\ current_rpm' = calculate_rpm(pulses, _last_rpm_calc_time)
         /\ _last_rpm_calc_time' = ticks_ms
         /\ main_sleep' = StopPollMs
         /\ UNCHANGED <<pc_main, stop_timeout, target_sensor_func, powerVars,
                        power_writer>>
    ELSE /\ SetPower("main", 0)
         /\ pc_main' = "tick"
         /\ main_sleep' = MainSleepMs
         /\ stop_timeout' = 0
         /\ target_sensor_func' = "None"
         /\ UNCHANGED <<last_rpm, rpmVars>>

\* the sensor-polling loop with the sensor pulses drawn from Pulses
main_loop_stop_poll_tick(Pulses) ==
    /\ pc_main = "stop_poll"
    /\ main_sleep = 0
    /\ \E pulses \in Pulses, needle_up \in BOOLEAN, needle_down \in BOOLEAN :
         main_loop_stop_poll_pass(pulses, needle_up, needle_down)
    /\ UNCHANGED <<is_pedal_pressed, soft_start_active, current_soft_start_power,
                   target_rpm_setpoint, pid_controller, last_pid_kp, last_pid_ki,
                   last_pid_kd>>
    /\ UNCHANGED <<fireVars, callVars, flagVars, configVars, calVars, tuneVars,
                   stop_latch, run_elapsed_ms, web_requests, pedal_presses, press_ticks>>

main_loop_stop_poll == main_loop_stop_poll_tick(PulseInputs)

----------------------------------------------------------------------------
(* run_max_rpm_calibration *)

CalPowerPercent == 100
CalSampleMs == 100

CalIdle == [ max_observed_rpm |-> 0, start_time |-> 0 ]

\* line 47: the condition of the sampling loop
CalLoopCondition(start_time) ==
    ticks_diff(ticks_ms, start_time) < 0 /\ max_rpm_calibration_active

\* The task created by main(): from its start, or from the await of line 53,
\* to its next await or its end.
run_max_rpm_calibration_task(Pulses) ==
    /\ pc_cal \in {"created", "loop"}
    /\ pc_main \notin {"start", "aborted"}
    /\ cal_sleep = 0
    /\ LET c == IF pc_cal = "created"
                THEN [ max_observed_rpm |-> 0, start_time |-> ticks_ms ]
                ELSE cal
       IN  IF CalLoopCondition(c.start_time)
           THEN /\ \E pulses \in Pulses :
                     LET rpm == calculate_rpm(pulses, _last_rpm_calc_time) IN
                     /\ current_rpm' = rpm
                     /\ cal' = [ c EXCEPT !.max_observed_rpm = Max(@, rpm) ]
                /\ _last_rpm_calc_time' = ticks_ms
                /\ IF pc_cal = "created"
                   THEN SetPower("cal", CalPowerPercent * PScale)
                   ELSE UNCHANGED <<powerVars, power_writer>>
                /\ pc_cal' = "loop"
                /\ cal_sleep' = CalSampleMs
                /\ UNCHANGED <<max_rpm_calibration_active, config>>
           ELSE /\ SetPower("cal", 0)
                /\ config' = IF max_rpm_calibration_active
                             THEN [ config EXCEPT !.max_motor_rpm = c.max_observed_rpm ]
                             ELSE config
                /\ max_rpm_calibration_active' = FALSE
                /\ pc_cal' = "done"
                /\ cal' = CalIdle
                /\ UNCHANGED <<cal_sleep, rpmVars>>
    /\ UNCHANGED <<fireVars, callVars, mainVars, autotune_active, autotune_stage,
                   config_manager_config, tuneVars, stop_latch, run_elapsed_ms,
                   web_requests, pedal_presses, press_ticks>>

run_max_rpm_calibration == run_max_rpm_calibration_task(PulseInputs)

----------------------------------------------------------------------------
(* autotune_pid *)

TuneSpinUpMs == 2000
TuneTimeoutMs == 45000
TuneSampleMs == 100
TuneMinRunMs == 10000
TuneLoopSleepMs == 50
TuneMinRpm == 10
TuneMinInit == 9999

TuneIdle ==
    [ autotune_target_rpm |-> 0, autotune_power_high |-> 0,
      autotune_power_low |-> 0, max_rpm_in_oscillation |-> 0,
      min_rpm_in_oscillation |-> 0, autotune_start_time |-> 0,
      tuning_timeout |-> 0, last_rpm_sample_time |-> 0 ]

\* the tuning loop without the test of autotune_active
TuneLoopCondition_timeout_only(active, tuning_timeout) ==
    ticks_diff(ticks_ms, tuning_timeout) < 0

\* line 104: the condition of the tuning loop
TuneLoopCondition(active, tuning_timeout) ==
    active /\ ticks_diff(ticks_ms, tuning_timeout) < 0

\* the gains with the integral time Pu instead of Pu / 2
ZieglerNichols_ti_pu(delta_power, delta_rpm) ==
    LET kp == IF delta_rpm > 0
              THEN RoundDiv(600 * delta_power, delta_rpm)
              ELSE 300
        kd == IF delta_rpm > 0
              THEN RoundDiv(150 * delta_power, delta_rpm)
              ELSE 75
    IN  [ kp |-> kp, ki |-> kp \div 2, kd |-> kd ]

\* lines 171-188: the gains (in 1/PScale) for an oscillation of delta_rpm
\* under a power swing of delta_power; Pu = 2.0
ZieglerNichols(delta_power, delta_rpm) ==
    LET kp == IF delta_rpm > 0
              THEN RoundDiv(600 * delta_power, delta_rpm)
              ELSE 300
        kd == IF delta_rpm > 0
              THEN RoundDiv(150 * delta_power, delta_rpm)
              ELSE 75
    IN  [ kp |-> kp, ki |-> kp, kd |-> kd ]

\* lines 71-86: the task created by main(), up to its first await
autotune_pid ==
    /\ pc_tune = "created"
    /\ pc_main \notin {"start", "aborted"}
    /\ pc_cal # "created"
    /\ tune' = [ TuneIdle EXCEPT
                   !.autotune_target_rpm = config.autotune_target_rpm,
                   !.autotune_power_high = config.autotune_power_high,
                   !.autotune_power_low = config.autotune_power_low ]
    /\ autotune_active' = TRUE
    /\ autotune_stage' = 1
    /\ pid_controller' = <<PID_reset(pid_controller[1])>>
    /\ SetPower("tune", config.autotune_power_high * PScale)
    /\ pc_tune' = "sleep2"
    /\ tune_sleep' = TuneSpinUpMs
    /\ UNCHANGED <<fireVars, callVars, is_pedal_pressed, soft_start_active,
                   current_soft_start_power, target_rpm_setpoint, last_rpm,
                   last_pid_kp, last_pid_ki, last_pid_kd, pc_main, main_sleep,
                   stop_timeout, target_sensor_func, max_rpm_calibration_active,
                   configVars, rpmVars, calVars, stop_latch, run_elapsed_ms,
                   web_requests, pedal_presses, press_ticks>>

\* the end of the routine without the set_motor_power(0) of line 220
autotune_pid_exit_keeps_power ==
    /\ autotune_stage' = IF autotune_active THEN 0 ELSE autotune_stage
    /\ autotune_active' = FALSE
    /\ pc_tune' = "done"
    /\ tune' = TuneIdle
    /\ UNCHANGED <<tune_sleep, config, rpmVars, powerVars, power_writer>>

\* lines 215-221: after the loop
autotune_pid_exit ==
    /\ autotune_stage' = IF autotune_active THEN 0 ELSE autotune_stage
    /\ autotune_active' = FALSE
    /\ SetPower("tune", 0)
    /\ pc_tune' = "done"
    /\ tune' = TuneIdle
    /\ UNCHANGED <<tune_sleep, config, rpmVars>>

\* lines 105-213: one pass of the loop body with the locals t
autotune_pid_pass(t, rpm) ==
    LET sampled == rpm > TuneMinRpm
                   /\ ticks_diff(ticks_ms, t.last_rpm_sample_time) >= TuneSampleMs
        max_rpm == Max(t.max_rpm_in_oscillation, rpm)
        min_rpm == Min(t.min_rpm_in_oscillation, rpm)
        low == rpm * 10 < t.autotune_target_rpm * 9
        high == rpm * 10 > t.autotune_target_rpm * 11
        found == /\ sampled
                 /\ ticks_diff(ticks_ms, t.autotune_start_time) > TuneMinRunMs
                 /\ (max_rpm - min_rpm) * 10 > t.autotune_target_rpm
        gains == ZieglerNichols(t.autotune_power_high - t.autotune_power_low,
                                max_rpm - min_rpm)
    IN  /\ current_rpm' = rpm
        /\ _last_rpm_calc_time' = ticks_ms
        /\ IF found
           THEN /\ config' = [ config EXCEPT !.kp = gains.kp, !.ki = gains.ki,
                                             !.kd = gains.kd, !.pid_enabled = TRUE ]
                /\ autotune_stage' = 2
                /\ autotune_active' = FALSE
                /\ SetPower("tune", 0)
                /\ pc_tune' = "done"
                /\ tune' = TuneIdle
                /\ UNCHANGED tune_sleep
           ELSE /\ IF sampled /\ low
                   THEN SetPower("tune", t.autotune_power_high * PScale)
                   ELSE IF sampled /\ high
                        THEN SetPower("tune", t.autotune_power_low * PScale)
                        ELSE UNCHANGED <<powerVars, power_writer>>
                /\ tune' = IF sampled
                           THEN [ t EXCEPT !.last_rpm_sample_time = ticks_ms,
                                           !.max_rpm_in_oscillation = max_rpm,
                                           !.min_rpm_in_oscillation = min_rpm ]
                           ELSE t
                /\ pc_tune' = "loop"
                /\ tune_sleep' = TuneLoopSleepMs
                /\ UNCHANGED <<config, autotune_active, autotune_stage>>

\* autotune_pid from the await of line 86 or of line 213 to its next await or
\* its end
autotune_pid_loop_tick(Pulses) ==
    /\ pc_tune \in {"sleep2", "loop"}
    /\ pc_main # "aborted"
    /\ tune_sleep = 0
    /\ LET t == IF pc_tune = "sleep2"
                THEN [ tune EXCEPT !.max_rpm_in_oscillation = 0,
                                   !.min_rpm_in_oscillation = TuneMinInit,
                                   !.autotune_start_time = ticks_ms,
                                   !.tuning_timeout = ticks_ms + TuneTimeoutMs,
                                   !.last_rpm_sample_time = ticks_ms ]
                ELSE tune
       IN  IF TuneLoopCondition(autotune_active, t.tuning_timeout)
           THEN \E pulses \in Pulses :
                    autotune_pid_pass(t, calculate_rpm(pulses, _last_rpm_calc_time))
           ELSE autotune_pid_exit
    /\ UNCHANGED <<fireVars, callVars, mainVars, max_rpm_calibration_active,
                   config_manager_config, calVars, stop_latch, run_elapsed_ms,
                   web_requests, pedal_presses, press_ticks>>

autotune_pid_loop == autotune_pid_loop_tick(PulseInputs)

----------------------------------------------------------------------------
(* web_server request handlers *)

\* the calibration start testing its own flag only
CalibrationStartAccepted_own_flag == ~max_rpm_calibration_active

\* line 95
CalibrationStartAccepted == ~max_rpm_calibration_active /\ ~autotune_active

\* line 109
AutotuneStartAccepted == ~autotune_active /\ ~max_rpm_calibration_active

\* the handler serving one request
calibrate_max_rpm_web_request ==
    /\ Started
    /\ web_requests' = web_requests + 1
    /\ IF CalibrationStartAccepted
       THEN /\ max_rpm_calibration_active' = TRUE
            /\ stop_latch' = FALSE
            /\ run_elapsed_ms' = 0
       ELSE UNCHANGED <<max_rpm_calibration_active, stop_latch, run_elapsed_ms>>
    /\ UNCHANGED <<fireVars, callVars, powerVars, mainVars, autotune_active, autotune_stage,
                   configVars, rpmVars, calVars, tuneVars, power_writer,
                   pedal_presses, press_ticks>>

calibrate_max_rpm_web ==
    web_requests < MaxRequests /\ calibrate_max_rpm_web_request

\* the handler serving one request
autotune_pid_web_request ==
    /\ Started
    /\ web_requests' = web_requests + 1
    /\ IF AutotuneStartAccepted
       THEN /\ autotune_active' = TRUE
            /\ autotune_stage' = 1
            /\ stop_latch' = FALSE
       ELSE UNCHANGED <<autotune_active, autotune_stage, stop_latch>>
    /\ UNCHANGED <<fireVars, callVars, powerVars, mainVars, max_rpm_calibration_active,
                   configVars, rpmVars, calVars, tuneVars, power_writer,
                   run_elapsed_ms, pedal_presses, press_ticks>>

autotune_pid_web ==
    web_requests < MaxRequests /\ autotune_pid_web_request

\* the handler serving one request
stop_operations_web_request ==
    /\ Started
    /\ web_requests' = web_requests + 1
    /\ autotune_active' = FALSE
    /\ max_rpm_calibration_active' = FALSE
    /\ SetPower("web", 0)
    /\ stop_latch' = TRUE
    /\ run_elapsed_ms' = -1
    /\ UNCHANGED <<fireVars, callVars, mainVars, autotune_stage, configVars, rpmVars,
                   calVars, tuneVars, pedal_presses, press_ticks>>

stop_operations_web ==
    web_requests < MaxRequests /\ stop_operations_web_request

\* the parameter writes of the control surface: <<param, value>>, the value
\* of a gain in 1/PScale, of pid_enabled 1 for true
ParamWrites ==
    { <<"soft_start_ramp_steps", 0>>, <<"kp", 600>>, <<"pid_enabled", 1>> }

\* lines 64-72: the value stored for `value`, by the type of the present one
StoredValue(param, value) ==
    IF param = "pid_enabled" THEN value # 0 ELSE value

\* the invalidation by a write of a gain only
InvalidatesGains_gains_only(param) == param \in {"kp", "ki", "kd"}

\* line 77
InvalidatesGains(param) == param \in {"kp", "ki", "kd", "pid_enabled"}

\* lines 57-81, for a parameter the configuration has: the value is stored in
\* config_manager.config and saved to config.json
set_param ==
    /\ Started
    /\ \E w \in ParamWrites :
         /\ config_manager_config' =
                [ config_manager_config EXCEPT ![w[1]] = StoredValue(w[1], w[2]) ]
         /\ last_pid_kp' = IF InvalidatesGains(w[1]) THEN None ELSE last_pid_kp
    /\ UNCHANGED <<fireVars, callVars, powerVars, is_pedal_pressed, soft_start_active,
                   current_soft_start_power, target_rpm_setpoint, last_rpm,
                   pid_controller, last_pid_ki, last_pid_kd, pc_main, main_sleep,
                   stop_timeout, target_sensor_func, flagVars, config, rpmVars,
                   calVars, tuneVars, obsVars>>

\* lines 129-135: machine.reset() at the end of the handler's sleep.  The
\* program starts again; both imports of the configuration load the
\* config.json the last save_config() wrote.
reboot_device ==
    /\ Started
    /\ motor_power_percent' = 0
    /\ _target_triac_delay_us' = ac_half_cycle_time_us
    /\ triac_gate_pin' = 0
    /\ pulses_since_set' = 0
    /\ is_pedal_pressed' = FALSE
    /\ soft_start_active' = FALSE
    /\ current_soft_start_power' = 0
    /\ target_rpm_setpoint' = 0
    /\ last_rpm' = 0
    /\ pid_controller' = None
    /\ last_pid_kp' = None
    /\ last_pid_ki' = None
    /\ last_pid_kd' = None
    /\ max_rpm_calibration_active' = FALSE
    /\ autotune_active' = FALSE
    /\ autotune_stage' = 0
    /\ config' = config_manager_config
    /\ config_manager_config' = config_manager_config
    /\ current_rpm' = 0
    /\ _last_rpm_calc_time' = ticks_ms
    /\ pc_main' = "start"
    /\ main_sleep' = 0
    /\ stop_timeout' = 0
    /\ target_sensor_func' = "None"
    /\ pc_cal' = "created"
    /\ cal_sleep' = 0
    /\ cal' = CalIdle
    /\ pc_tune' = "created"
    /\ tune_sleep' = 0
    /\ tune' = TuneIdle
    /\ power_writer' = "none"
    /\ stop_latch' = FALSE
    /\ run_elapsed_ms' = -1
    /\ web_requests' = 0
    /\ pedal_presses' = 0
    /\ press_ticks' = 0
    /\ UNCHANGED <<fireVars, callVars>>

----------------------------------------------------------------------------
(* The millisecond clock: time passes until the next task is due *)

MinOf(S) == CHOOSE x \in S : \A y \in S : x <= y

PendingSleeps ==
    {main_sleep}
    \cup (IF pc_cal = "loop" THEN {cal_sleep} ELSE {})
    \cup (IF pc_tune \in {"sleep2", "loop"} THEN {tune_sleep} ELSE {})

Aged(stamp, d, oldest) == Max(stamp - d, -oldest)

Advance ==
    /\ Started
    /\ LET d == MinOf(PendingSleeps) IN
       /\ d > 0
       /\ main_sleep' = main_sleep - d
       /\ cal_sleep' = IF pc_cal = "loop" THEN cal_sleep - d ELSE cal_sleep
       /\ tune_sleep' = IF pc_tune \in {"sleep2", "loop"}
                        THEN tune_sleep - d ELSE tune_sleep
       /\ stop_timeout' = IF pc_main = "stop_poll"
                          THEN stop_timeout - d ELSE stop_timeout
       /\ _last_rpm_calc_time' = Aged(_last_rpm_calc_time, d, MaxAgeMs)
       /\ pid_controller' =
              IF pid_controller = None THEN None
              ELSE <<[ pid_controller[1] EXCEPT
                         !._last_time = Aged(@, d, MaxAgeMs) ]>>
       /\ cal' = IF pc_cal = "loop"
                 THEN [ cal EXCEPT !.start_time = Aged(@, d, MaxAgeMs) ]
                 ELSE cal
       /\ tune' = IF pc_tune = "loop"
                  THEN [ tune EXCEPT
                           !.autotune_start_time = Aged(@, d, TuneMinRunMs + 1),
                           !.tuning_timeout = @ - d,
                           !.last_rpm_sample_time = Aged(@, d, TuneSampleMs) ]
                  ELSE tune
       /\ run_elapsed_ms' = IF run_elapsed_ms < 0 THEN run_elapsed_ms
                            ELSE Min(run_elapsed_ms + d, RunElapsedCapMs)
    /\ UNCHANGED <<fireVars, callVars, powerVars, is_pedal_pressed, soft_start_active,
                   current_soft_start_power, target_rpm_setpoint, last_rpm,
                   last_pid_kp, last_pid_ki, last_pid_kd, pc_main,
                   target_sensor_func, flagVars, configVars, current_rpm,
                   pc_cal, pc_tune, power_writer, stop_latch, web_requests,
                   pedal_presses, press_ticks>>

----------------------------------------------------------------------------
(* The functions called on their own.  pending_calls holds the calls still   *)
(* to be made: a call is its name, its arguments and the number of digits    *)
(* of the mantissa of the interpreter's floats.  A call that is made moves   *)
(* to `returned` together with the value it returned.  The functions that    *)
(* return int() of a float expression are computed in binary floating point  *)
(* here, operation by operation as the code writes them.                     *)

Call(name, args, bits) == [ name |-> name, args |-> args, bits |-> bits ]

NextCallIs(name) == pending_calls # <<>> /\ Head(pending_calls).name = name

\* the call at the head of pending_calls has returned `value`
Return(value) ==
    /\ returned' = Append(returned, [ call |-> Head(pending_calls), value |-> value ])
    /\ pending_calls' = Tail(pending_calls)

\* set_motor_power lines 158-162: int(min_fire_delay_us + delay_range *
\* ((100 - percent) / 100.0)) for a percent that is a multiple of 0.5
TargetDelayFloat(percent, bits) ==
    IF DeadZone(percent)
    THEN ac_half_cycle_time_us + 100
    ELSE FloatInt(FloatAddNat(
             FloatMulNat(FloatDivNat(100 * PScale - ClampPercent(percent),
                                     100 * PScale, bits),
                         max_effective_delay_us - min_fire_delay_us, bits),
             min_fire_delay_us, bits))

\* set_motor_power(percent); the delay it stored is kept as the value of the
\* call
set_motor_power_call ==
    /\ NextCallIs("set_motor_power")
    /\ LET percent == Head(pending_calls).args[1]
           bits == Head(pending_calls).bits
       IN  /\ motor_power_percent' = ClampPercent(percent)
           /\ _target_triac_delay_us' = TargetDelayFloat(percent, bits)
           /\ triac_gate_pin' = IF DeadZone(percent) THEN 0 ELSE triac_gate_pin
           /\ pulses_since_set' = 0
           /\ power_writer' = "call"
           /\ Return(TargetDelayFloat(percent, bits))
    /\ UNCHANGED <<fireVars, mainVars, flagVars, configVars, rpmVars, calVars,
                   tuneVars, stop_latch, run_elapsed_ms, web_requests,
                   pedal_presses, press_ticks, pulseVars>>

\* percent arguments in 1/PScale percent: every half percent from -2 to 12,
\* and whole percents up to 110
PowerCallInputs ==
    {h * (PScale \div 2) : h \in -4 .. 24}
    \cup {p * PScale : p \in {22, 31, 47, 50, 75, 99, 100, 101, 110}}

\* two set_motor_power calls in a row
PowerScripts ==
    {<<Call("set_motor_power", <<p1>>, bits), Call("set_motor_power", <<p2>>, bits)>> :
        p1 \in PowerCallInputs, p2 \in PowerCallInputs, bits \in MantissaBits}

\* get_target_rpm_from_pedal without the cap at max_motor_rpm
get_target_rpm_from_pedal_float_uncapped(pedal_value, max_rpm_setting, max_motor_rpm, bits) ==
    IF pedal_value < 1000
    THEN 0
    ELSE IF pedal_value >= adc_max_value
    THEN max_rpm_setting
    ELSE FloatInt(FloatMulNat(FloatDivNat(pedal_value - 1000, adc_max_value - 1000, bits),
                              max_rpm_setting, bits))

\* get_target_rpm_from_pedal lines 172-186 for a non-negative max_rpm_setting:
\* the quotient is a float, clamped to 1 above the range of the converter
get_target_rpm_from_pedal_float(pedal_value, max_rpm_setting, max_motor_rpm, bits) ==
    IF pedal_value < 1000
    THEN 0
    ELSE IF pedal_value >= adc_max_value
    THEN Min(max_rpm_setting, max_motor_rpm)
    ELSE Min(FloatInt(FloatMulNat(FloatDivNat(pedal_value - 1000, adc_max_value - 1000, bits),
                                  max_rpm_setting, bits)),
             max_motor_rpm)

get_target_rpm_from_pedal_call ==
    /\ NextCallIs("get_target_rpm_from_pedal")
    /\ LET c == Head(pending_calls)
       IN  Return(get_target_rpm_from_pedal_float(c.args[1], c.args[2], c.args[3], c.bits))
    /\ UNCHANGED <<fireVars, powerVars, taskVars, pulseVars>>

\* readings of the pedal: at rest, around the threshold of 1000, part way
\* down, fully down
PedalCallInputs == {0, 999, 1000, 1001, 1129, 33268, 39721, 65534, 65535}

MaxRpmSettingInputs == {0, 1, 300, 500, 3000}

MaxMotorRpmInputs == {0, 200, 2000}

\* two get_target_rpm_from_pedal calls in a row with the same settings
PedalScripts ==
    {<<Call("get_target_rpm_from_pedal", <<p1, setting, motor>>, bits),
       Call("get_target_rpm_from_pedal", <<p2, setting, motor>>, bits)>> :
        p1 \in PedalCallInputs, p2 \in PedalCallInputs,
        setting \in MaxRpmSettingInputs, motor \in MaxMotorRpmInputs,
        bits \in MantissaBits}

\* main_loop lines 308-319 with the pedal reading and the two calibrated
\* percents of the configuration as arguments; the value is a float and is
\* computed in fixed point (bits is 0)
open_loop_target_power_call ==
    /\ NextCallIs("open_loop_target_power")
    /\ LET c == Head(pending_calls)
       IN  Return(OpenLoopTargetPower(c.args[1],
                      [ config EXCEPT
                          !.calibrated_motor_power_free_running_percent = c.args[2],
                          !.calibrated_motor_power_load_offset_percent = c.args[3] ]))
    /\ UNCHANGED <<fireVars, powerVars, taskVars, pulseVars>>

\* readings of a pressed pedal
PressedPedalInputs == {1001, 1129, 33268, 39721, 65535}

FreeRunningPercentInputs == {0, 50, 80, 100}

LoadOffsetPercentInputs == {0, 10, 30}

\* the open-loop target computed twice in a row with the same configuration
OpenLoopScripts ==
    {<<Call("open_loop_target_power", <<p1, free, offset>>, 0),
       Call("open_loop_target_power", <<p2, free, offset>>, 0)>> :
        p1 \in PressedPedalInputs, p2 \in PressedPedalInputs,
        free \in FreeRunningPercentInputs, offset \in LoadOffsetPercentInputs}

\* utime.sleep_ms(d) between two calls: every stamp of the millisecond clock
\* is d older and the microsecond clock 1000 * d further
sleep_ms_call ==
    /\ NextCallIs("sleep_ms")
    /\ LET d == Head(pending_calls).args[1]
       IN  /\ pid_controller' =
                  IF pid_controller = None THEN None
                  ELSE <<[ pid_controller[1] EXCEPT !._last_time = @ - d ]>>
           /\ _last_rpm_calc_time' = _last_rpm_calc_time - d
           /\ now_us' = now_us + 1000 * d
    /\ Return(None)
    /\ UNCHANGED <<last_zero_cross_time_us, current_cycle_zc_time, fire_at_us,
                   fire_pc, fire_sleep_us, latency_left_us, pulse_end_us,
                   next_zc_us, pulses_in_half_cycle, powerVars, is_pedal_pressed,
                   soft_start_active, current_soft_start_power,
                   target_rpm_setpoint, last_rpm, last_pid_kp, last_pid_ki,
                   last_pid_kd, pc_main, main_sleep, stop_timeout,
                   target_sensor_func, flagVars, configVars, current_rpm,
                   calVars, tuneVars, obsVars, pulseVars>>

\* utime.sleep_us(d), less than a millisecond, between two pulses
sleep_us_call ==
    /\ NextCallIs("sleep_us")
    /\ now_us' = now_us + Head(pending_calls).args[1]
    /\ Return(None)
    /\ UNCHANGED <<last_zero_cross_time_us, current_cycle_zc_time, fire_at_us,
                   fire_pc, fire_sleep_us, latency_left_us, pulse_end_us,
                   next_zc_us, pulses_in_half_cycle, powerVars, taskVars,
                   pulseVars>>

\* PID(kp, ki, kd): the controller is bound to pid_controller
PID_call ==
    /\ NextCallIs("PID")
    /\ LET c == Head(pending_calls)
       IN  pid_controller' = <<PID(c.args[1], c.args[2], c.args[3])>>
    /\ Return(None)
    /\ UNCHANGED <<fireVars, powerVars, is_pedal_pressed, soft_start_active,
                   current_soft_start_power, target_rpm_setpoint, last_rpm,
                   last_pid_kp, last_pid_ki, last_pid_kd, pc_main, main_sleep,
                   stop_timeout, target_sensor_func, flagVars, configVars,
                   rpmVars, calVars, tuneVars, obsVars, pulseVars>>

\* pid_controller.update(setpoint, current_value)
PID_update_call ==
    /\ NextCallIs("PID.update")
    /\ pid_controller # None
    /\ LET c == Head(pending_calls)
           result == PID_update(pid_controller[1], c.args[1], c.args[2])
       IN  /\ pid_controller' = <<result[2]>>
           /\ Return(result[1])
    /\ UNCHANGED <<fireVars, powerVars, is_pedal_pressed, soft_start_active,
                   current_soft_start_power, target_rpm_setpoint, last_rpm,
                   last_pid_kp, last_pid_ki, last_pid_kd, pc_main, main_sleep,
                   stop_timeout, target_sensor_func, flagVars, configVars,
                   rpmVars, calVars, tuneVars, obsVars, pulseVars>>

\* pid_controller.reset()
PID_reset_call ==
    /\ NextCallIs("PID.reset")
    /\ pid_controller # None
    /\ pid_controller' = <<PID_reset(pid_controller[1])>>
    /\ Return(None)
    /\ UNCHANGED <<fireVars, powerVars, is_pedal_pressed, soft_start_active,
                   current_soft_start_power, target_rpm_setpoint, last_rpm,
                   last_pid_kp, last_pid_ki, last_pid_kd, pc_main, main_sleep,
                   stop_timeout, target_sensor_func, flagVars, configVars,
                   rpmVars, calVars, tuneVars, obsVars, pulseVars>>

\* main_loop line 292: a step of the soft-start ramp,
\* pid_controller._soft_start_current_setpoint += rpm_increment_per_step
soft_start_setpoint_step ==
    /\ NextCallIs("soft_start_setpoint_step")
    /\ pid_controller # None
    /\ pid_controller' =
           <<[ pid_controller[1] EXCEPT
                 !._soft_start_current_setpoint = @ + Head(pending_calls).args[1] ]>>
    /\ Return(None)
    /\ UNCHANGED <<fireVars, powerVars, is_pedal_pressed, soft_start_active,
                   current_soft_start_power, target_rpm_setpoint, last_rpm,
                   last_pid_kp, last_pid_ki, last_pid_kd, pc_main, main_sleep,
                   stop_timeout, target_sensor_func, flagVars, configVars,
                   rpmVars, calVars, tuneVars, obsVars, pulseVars>>

\* the gains of the controller: a pure proportional controller and the gains
\* of DEFAULT_CONFIG
GainInputs == {<<PScale, 0, 0>>, <<DEFAULT_CONFIG.kp, DEFAULT_CONFIG.ki, DEFAULT_CONFIG.kd>>}

\* the time between two calls: none, or the sleep of the control loop
UpdateSleepInputs == {0, RunSleepMs}

\* set-points and measured speeds in 1/PScale RPM
SetpointInputs == {100 * PScale, 300 * PScale}

MeasuredInputs == {0, 80 * PScale, 250 * PScale, 400 * PScale}

\* a controller is made and updated twice
ControllerScripts ==
    {<<Call("PID", g, 0),
       Call("sleep_ms", <<d1>>, 0), Call("PID.update", <<s1, m1>>, 0),
       Call("sleep_ms", <<d2>>, 0), Call("PID.update", <<s2, m2>>, 0)>> :
        g \in GainInputs, d1 \in UpdateSleepInputs, d2 \in UpdateSleepInputs,
        s1 \in SetpointInputs, m1 \in MeasuredInputs,
        s2 \in SetpointInputs, m2 \in MeasuredInputs}

\* the increments of the soft-start set-point in 1/PScale RPM
RampIncrementInputs == {0, 10 * PScale}

\* a controller is made, updated and ramped, then reset twice
ResetScripts ==
    {<<Call("PID", g, 0),
       Call("sleep_ms", <<d1>>, 0), Call("PID.update", <<s1, m1>>, 0),
       Call("soft_start_setpoint_step", <<inc>>, 0),
       Call("sleep_ms", <<d2>>, 0), Call("PID.reset", <<>>, 0),
       Call("sleep_ms", <<d3>>, 0), Call("PID.reset", <<>>, 0)>> :
        g \in GainInputs, d1 \in UpdateSleepInputs, d2 \in UpdateSleepInputs,
        d3 \in UpdateSleepInputs, s1 \in SetpointInputs, m1 \in MeasuredInputs,
        inc \in RampIncrementInputs}

\* a rising edge of the RPM sensor
rpm_pulse_isr ==
    /\ NextCallIs("rpm_pulse_isr")
    /\ LET current_time == now_us
       IN  IF ticks_diff(current_time, last_pulse_time) > DebounceUs
           THEN /\ pulse_count' = pulse_count + 1
                /\ last_pulse_time' = current_time
                /\ pulses_accepted' = pulses_accepted + 1
           ELSE UNCHANGED <<pulse_count, last_pulse_time, pulses_accepted>>
    /\ Return(None)
    /\ UNCHANGED <<fireVars, powerVars, taskVars, pc_rpm, pulses_sampled>>

\* calculate_rpm line 69: int((pulse_count / time_since_last_call_ms) * 1000
\* * (60 / RPM_POLES)) for a number of poles that divides 60
RpmValueFloat(pulses, time_since_last_call_ms, bits) ==
    IF time_since_last_call_ms > 0
    THEN FloatInt(FloatMulNat(
             FloatMulNat(FloatDivNat(pulses, time_since_last_call_ms, bits),
                         1000, bits),
             60 \div RPM_POLES, bits))
    ELSE 0

\* calculate_rpm()
calculate_rpm_call ==
    /\ NextCallIs("calculate_rpm")
    /\ pc_rpm = "idle"
    /\ LET time_since_last_call_ms == ticks_diff(ticks_ms, _last_rpm_calc_time)
           rpm == RpmValueFloat(pulse_count, time_since_last_call_ms,
                                Head(pending_calls).bits)
       IN  /\ _last_rpm_calc_time' = ticks_ms
           /\ current_rpm' = rpm
           /\ pulse_count' = IF time_since_last_call_ms > 0 THEN 0 ELSE pulse_count
           /\ pulses_sampled' = IF time_since_last_call_ms > 0
                                THEN pulses_sampled + pulse_count
                                ELSE pulses_sampled
           /\ Return(rpm)
    /\ UNCHANGED <<fireVars, powerVars, mainVars, flagVars, configVars, calVars,
                   tuneVars, obsVars, last_pulse_time, pc_rpm, pulses_accepted>>

\* The pulse interrupt preempts the task that runs calculate_rpm between any
\* two of its statements: calculate_rpm in two steps, and the interrupt as a
\* step of its own.
\* lines 60-70: the window, the read of pulse_count, the sample
calculate_rpm_read ==
    /\ NextCallIs("calculate_rpm")
    /\ pc_rpm = "idle"
    /\ LET time_since_last_call_ms == ticks_diff(ticks_ms, _last_rpm_calc_time)
           rpm == RpmValueFloat(pulse_count, time_since_last_call_ms,
                                Head(pending_calls).bits)
       IN  /\ _last_rpm_calc_time' = ticks_ms
           /\ current_rpm' = rpm
           /\ IF time_since_last_call_ms > 0
              THEN /\ pc_rpm' = "l71"
                   /\ pulses_sampled' = pulses_sampled + pulse_count
                   /\ UNCHANGED <<pending_calls, returned>>
              ELSE /\ Return(rpm)
                   /\ UNCHANGED <<pc_rpm, pulses_sampled>>
    /\ UNCHANGED <<fireVars, powerVars, mainVars, flagVars, configVars, calVars,
                   tuneVars, obsVars, pulse_count, last_pulse_time,
                   pulses_accepted>>

\* lines 71 and 75: the reset of pulse_count, the return
calculate_rpm_reset ==
    /\ pc_rpm = "l71"
    /\ pulse_count' = 0
    /\ pc_rpm' = "idle"
    /\ Return(current_rpm)
    /\ UNCHANGED <<fireVars, powerVars, taskVars, last_pulse_time,
                   pulses_accepted, pulses_sampled>>

\* a rising edge of the RPM sensor `gap` microseconds after the last step:
\* rpm_pulse_isr runs at once, wherever the tasks are
EdgeGapInputs == {DebounceUs, DebounceUs + 1}

rpm_pulse_irq ==
    /\ pulses_accepted < MaxPulses
    /\ \E gap \in EdgeGapInputs :
         LET current_time == now_us + gap
         IN  /\ now_us' = current_time
             /\ IF ticks_diff(current_time, last_pulse_time) > DebounceUs
                THEN /\ pulse_count' = pulse_count + 1
                     /\ last_pulse_time' = current_time
                     /\ pulses_accepted' = pulses_accepted + 1
                ELSE UNCHANGED <<pulse_count, last_pulse_time, pulses_accepted>>
    /\ UNCHANGED <<last_zero_cross_time_us, current_cycle_zc_time, fire_at_us,
                   fire_pc, fire_sleep_us, latency_left_us, pulse_end_us,
                   next_zc_us, pulses_in_half_cycle, powerVars, taskVars,
                   pending_calls, returned, pc_rpm, pulses_sampled>>

\* calculate_rpm called every `window` milliseconds
SampleWindow(window, bits) ==
    <<Call("sleep_ms", <<window>>, 0), Call("calculate_rpm", <<>>, bits)>>

SampleWindowInputs == {0, RunSleepMs, 1000}

IrqScripts ==
    {SampleWindow(w1, bits) \o SampleWindow(w2, bits) \o SampleWindow(w3, bits) :
        w1 \in SampleWindowInputs, w2 \in SampleWindowInputs,
        w3 \in SampleWindowInputs, bits \in MantissaBits}

RECURSIVE Repeat(_, _)
Repeat(script, n) == IF n = 0 THEN <<>> ELSE script \o Repeat(script, n - 1)

\* n rising edges `gap` microseconds apart, then calculate_rpm when the
\* millisecond clock has moved on by `window`
PulseWindow(n, gap, window, bits) ==
    Repeat(<<Call("sleep_us", <<gap>>, 0), Call("rpm_pulse_isr", <<>>, 0)>>, n)
    \o <<Call("sleep_ms", <<window>>, 0), Call("calculate_rpm", <<>>, bits)>>

\* the numbers of edges in the first window, the times between two edges
\* around the debounce time, the lengths of a window
PulseCountInputs == {0, 1, 2, 3, 11, 23, 25, 30}

PulseGapInputs == {99, 100, 101, 150}

WindowMsInputs == {0, 1, 3, 15, 625, 1000}

\* two windows in a row; the edges of a window fit into it
SensorScripts ==
    {PulseWindow(w[1], w[2], w[3], bits) \o PulseWindow(n2, 101, d2, bits) :
        w \in {v \in PulseCountInputs \X PulseGapInputs \X WindowMsInputs :
                  v[1] * v[2] < 1000 * (v[3] + 1)},
        n2 \in {0, 1}, d2 \in {0, RunSleepMs}, bits \in MantissaBits}

----------------------------------------------------------------------------
(* Specifications *)

\* the state at power-up with the loaded configuration drawn from Files, the
\* calls to be made drawn from Scripts and the calls made at import drawn
\* from Made
InitOf(Files, Scripts, Made) ==
    /\ motor_power_percent = 0
    /\ _target_triac_delay_us = ac_half_cycle_time_us
    /\ triac_gate_pin = 0
    /\ last_zero_cross_time_us = 0
    /\ current_cycle_zc_time = 0
    /\ fire_at_us = 0
    /\ fire_pc = "yield"
    /\ fire_sleep_us = 0
    /\ latency_left_us = 0
    /\ pulse_end_us = 0
    /\ now_us = 0
    /\ next_zc_us = FirstZcUs
    /\ pulses_in_half_cycle = 0
    /\ pulses_since_set = 0
    /\ is_pedal_pressed = FALSE
    /\ soft_start_active = FALSE
    /\ current_soft_start_power = 0
    /\ target_rpm_setpoint = 0
    /\ last_rpm = 0
    /\ pid_controller = None
    /\ last_pid_kp = None
    /\ last_pid_ki = None
    /\ last_pid_kd = None
    /\ max_rpm_calibration_active = FALSE
    /\ autotune_active = FALSE
    /\ autotune_stage = 0
    /\ config \in Files
    /\ config_manager_config = config
    /\ current_rpm = 0
    /\ _last_rpm_calc_time = ticks_ms
    /\ pc_main = "start"
    /\ main_sleep = 0
    /\ stop_timeout = 0
    /\ target_sensor_func = "None"
    /\ pc_cal = "created"
    /\ cal_sleep = 0
    /\ cal = CalIdle
    /\ pc_tune = "created"
    /\ tune_sleep = 0
    /\ tune = TuneIdle
    /\ power_writer = "none"
    /\ stop_latch = FALSE
    /\ run_elapsed_ms = -1
    /\ web_requests = 0
    /\ pedal_presses = 0
    /\ press_ticks = 0
    /\ pending_calls \in Scripts
    /\ returned \in Made
    /\ pulse_count = 0
    /\ last_pulse_time = 0
    /\ pc_rpm = "idle"
    /\ pulses_accepted = 0
    /\ pulses_sampled = 0

\* the state at power-up with the config.json drawn from Files and the calls
\* to be made drawn from Scripts
InitWith(Files, Scripts) == InitOf(Files, Scripts, {<<>>})

\* the state at power-up when only the tasks of the program run
InitFrom(Files) == InitWith(Files, {<<>>})

Init == InitFrom(ConfigFiles)

NextFire ==
    \/ zero_cross_isr
    \/ triac_firing_task_resume
    \/ triac_firing_task_reference
    \/ fire_triac
    \/ fire_triac_end
    \/ AdvanceUs
    \/ PowerCommand

SpecFire == Init /\ [][NextFire]_vars

Next ==
    \/ main_loop
    \/ main_loop_stop_poll
    \/ run_max_rpm_calibration
    \/ autotune_pid
    \/ autotune_pid_loop
    \/ calibrate_max_rpm_web
    \/ autotune_pid_web
    \/ stop_operations_web
    \/ Advance

Spec == Init /\ [][Next]_vars

\* the cooperative tasks with the parameter writes and the reboot of the
\* control surface
NextParam ==
    \/ main_loop
    \/ main_loop_stop_poll
    \/ run_max_rpm_calibration
    \/ autotune_pid
    \/ autotune_pid_loop
    \/ set_param
    \/ reboot_device
    \/ Advance

SpecParam == Init /\ [][NextParam]_vars

\* the cooperative tasks with a speed sensor that reads differing speeds, so
\* that the autotune run of the power-up can find its oscillation
NextTune ==
    \/ main_loop_tick(TunePulseInputs, PedalInputs)
    \/ main_loop_stop_poll_tick(TunePulseInputs)
    \/ run_max_rpm_calibration_task(TunePulseInputs)
    \/ autotune_pid
    \/ autotune_pid_loop_tick(TunePulseInputs)
    \/ stop_operations_web
    \/ Advance

SpecTune == Init /\ [][NextTune]_vars

\* the cooperative tasks in PID mode with a calibration start and a
\* force-stop of the control surface
InitPid == InitFrom(PidConfigFiles)

calibrate_max_rpm_web_pause ==
    web_requests < MaxPauseRequests /\ calibrate_max_rpm_web_request

stop_operations_web_pause ==
    web_requests < MaxPauseRequests /\ stop_operations_web_request

NextPause ==
    \/ main_loop
    \/ main_loop_stop_poll
    \/ run_max_rpm_calibration
    \/ autotune_pid
    \/ autotune_pid_loop
    \/ calibrate_max_rpm_web_pause
    \/ stop_operations_web_pause
    \/ Advance

SpecPause == InitPid /\ [][NextPause]_vars

\* the cooperative tasks in both modes with a pedal that moves between ticks
\* and a shaft that may stand still
InitRamp == InitFrom(ConfigFiles \cup PidConfigFiles)

NextRamp ==
    \/ main_loop_tick(TunePulseInputs, RampPedalInputs)
    \/ main_loop_stop_poll_tick(TunePulseInputs)
    \/ run_max_rpm_calibration_task(TunePulseInputs)
    \/ autotune_pid
    \/ autotune_pid_loop_tick(TunePulseInputs)
    \/ Advance

SpecRamp == InitRamp /\ [][NextRamp]_vars

\* the cooperative tasks in PID mode with the configuration defaults
\* (max_rpm_setting 500, soft_start_ramp_steps 50) and a pedal that is held
\* where it was pressed
HeldConfigFiles == {[ DEFAULT_CONFIG EXCEPT !.pid_enabled = TRUE ]}

InitHeld == InitFrom(HeldConfigFiles)

NextHeld ==
    \/ main_loop_tick(TunePulseInputs, HeldPedalInputs)
    \/ main_loop_stop_poll
    \/ run_max_rpm_calibration
    \/ autotune_pid
    \/ autotune_pid_loop
    \/ Advance

SpecHeld == InitHeld /\ [][NextHeld]_vars

\* PowerMapper called on its own
MapperScripts == PowerScripts \cup PedalScripts \cup OpenLoopScripts

InitMapper == InitWith(ConfigFiles, MapperScripts)

NextMapper ==
    \/ set_motor_power_call
    \/ get_target_rpm_from_pedal_call
    \/ open_loop_target_power_call

SpecMapper == InitMapper /\ [][NextMapper]_vars

\* the PID controller called on its own
InitController == InitWith(ConfigFiles, ControllerScripts \cup ResetScripts)

NextController ==
    \/ PID_call
    \/ PID_update_call
    \/ PID_reset_call
    \/ soft_start_setpoint_step
    \/ sleep_ms_call

SpecController == InitController /\ [][NextController]_vars

\* the speed sensor on its own: edges of the sensor and calculate_rpm calls
InitSensor == InitWith(ConfigFiles, SensorScripts)

NextSensor ==
    \/ rpm_pulse_isr
    \/ calculate_rpm_call
    \/ sleep_us_call
    \/ sleep_ms_call

SpecSensor == InitSensor /\ [][NextSensor]_vars

\* the pulse interrupt against calculate_rpm: edges of the sensor at any point
\* of the calls
InitIrq == InitWith(ConfigFiles, IrqScripts)

NextIrq ==
    \/ calculate_rpm_read
    \/ calculate_rpm_reset
    \/ rpm_pulse_irq
    \/ sleep_ms_call

SpecIrq == InitIrq /\ [][NextIrq]_vars

\* the tasks and the parameter writes after load_config has loaded a stored
\* configuration; the call is kept in `returned`
LoadCall(stored) == [ call |-> Call("load_config", <<stored>>, 0), value |-> None ]

InitStored ==
    \E stored \in StoredFiles :
        InitOf({load_config(stored)}, {<<>>}, {<<LoadCall(stored)>>})

NextStored ==
    \/ main_loop
    \/ main_loop_stop_poll
    \/ run_max_rpm_calibration
    \/ autotune_pid
    \/ autotune_pid_loop
    \/ set_param
    \/ Advance

SpecStored == InitStored /\ [][NextStored]_vars


----------------------------------------------------------------------------
(* Claims on the firing subsystem (SpecFire) *)

\* C1: between two consecutive zero crossings the gate is pulsed at most once
\* (at most one rising edge of the gate since the last zero-cross interrupt).
C1_OnePulsePerHalfCycle == pulses_in_half_cycle <= 1

\* C2: while the commanded power is at most 5% the target delay is an off value
\* not below the half cycle, the gate is low, the firing task is neither
\* spin-waiting nor pulsing, and no pulse has been issued since that
\* set_motor_power call; the gate is low whenever the firing task is suspended.
C2_NoPulseWhenOff ==
    /\ motor_power_percent <= 5 * PScale =>
          /\ _target_triac_delay_us >= ac_half_cycle_time_us
          /\ triac_gate_pin = 0
          /\ fire_pc \notin {"spin", "pulse"}
          /\ pulses_since_set = 0
    /\ fire_pc = "yield" => triac_gate_pin = 0

\* the firing task has handled the second zero crossing under a power of 5%
C2_Witness ==
    /\ motor_power_percent = 5 * PScale
    /\ fire_pc = "yield"
    /\ current_cycle_zc_time = FirstZcUs + ac_half_cycle_time_us
    /\ fire_at_us = current_cycle_zc_time + _target_triac_delay_us

----------------------------------------------------------------------------
(* Claims on the cooperative tasks (Spec) *)

\* C3: the stop sequence terminates.  While the sensor is polled the time left
\* to the 5 s timeout is never negative and the next poll is due within it; a
\* release of the pedal either starts the polling or zeroes the power at once;
\* and the step that leaves the polling loop, on the sensor or on the timeout,
\* forces the power to 0 and returns to Idle.
C3_StopTerminates ==
    /\ [](pc_main = "stop_poll" =>
            /\ stop_timeout \in 0 .. StopTimeoutMs
            /\ main_sleep \in 0 .. stop_timeout)
    /\ [][(is_pedal_pressed /\ ~is_pedal_pressed') =>
            (pc_main' = "stop_poll" \/ motor_power_percent' = 0)]_vars
    /\ [][(pc_main = "stop_poll" /\ pc_main' # "stop_poll") =>
            /\ motor_power_percent' = 0
            /\ _target_triac_delay_us' >= ac_half_cycle_time_us
            /\ ~is_pedal_pressed'
            /\ pc_main' = "tick"]_vars

\* the sensor has not asserted for 5 s: the poll that is due now is the last
C3_Witness ==
    /\ pc_main = "stop_poll"
    /\ stop_timeout = 0
    /\ main_sleep = 0

\* C4: while the sensor is polled after a release of the pedal, the power the
\* main loop commanded is the fixed non-zero creep value and the target delay
\* is in the firing range.
C4_CreepPowerDrives ==
    (pc_main = "stop_poll" /\ power_writer = "main") =>
        /\ motor_power_percent = StopPowerPercent * PScale
        /\ motor_power_percent > 0
        /\ FiringEnabled

C7_StartOnlyFromIdle ==
    [][(/\ web_requests' # web_requests
        /\ \/ ~max_rpm_calibration_active /\ max_rpm_calibration_active'
           \/ ~autotune_active /\ autotune_active')
       => (~is_pedal_pressed /\ pc_main # "stop_poll")]_vars

\* C8: while the autotune run of the power-up is active and no request has
\* been served, the autotune routine is the last writer of the power and the
\* power is its high or its low level.
C8_SingleWriter ==
    (autotune_active /\ pc_tune \in {"sleep2", "loop"} /\ web_requests = 0) =>
        /\ power_writer = "tune"
        /\ motor_power_percent \in {tune.autotune_power_high * PScale,
                                    tune.autotune_power_low * PScale}

\* C9: a calibration that was accepted RunElapsedCapMs ago and is still active
\* is sampling with the power at 100%.
C9_CalibrationHoldsFullPower ==
    (max_rpm_calibration_active /\ run_elapsed_ms >= RunElapsedCapMs) =>
        /\ pc_cal = "loop"
        /\ motor_power_percent = CalPowerPercent * PScale

\* C10: a routine whose flag is active has not ended, so that it can still
\* run and make its flag false without a further request.
C10_ActiveRoutineIsLive ==
    /\ max_rpm_calibration_active => pc_cal # "done"
    /\ autotune_active => pc_tune # "done"

\* C11: a calibration or autotune run cancelled by its flag changes no
\* configuration parameter and ends with the power at 0.  No step taken while
\* the autotune routine is suspended with its flag false changes the
\* configuration; the routine's next tick after the flag went false is its
\* last, writes nothing and zeroes the power; the calibration routine ending
\* with its flag false writes nothing and zeroes the power.
C11_CancelLeavesConfig ==
    /\ [][(pc_tune \in {"sleep2", "loop"} /\ ~autotune_active) =>
            /\ config' = config
            /\ config_manager_config' = config_manager_config]_vars
    /\ [][(/\ pc_tune \in {"sleep2", "loop"}
           /\ ~autotune_active
           /\ (pc_tune' # pc_tune \/ tune_sleep' > tune_sleep)) =>
            /\ pc_tune' = "done"
            /\ ~autotune_active'
            /\ motor_power_percent' = 0
            /\ _target_triac_delay_us' >= ac_half_cycle_time_us]_vars
    /\ [][(pc_cal # "done" /\ pc_cal' = "done" /\ ~max_rpm_calibration_active) =>
            /\ config' = config
            /\ config_manager_config' = config_manager_config
            /\ motor_power_percent' = 0]_vars

\* the autotune run of the power-up was cancelled by the one request served
\* and has ended: the configuration is the one of the power-up
C11_Witness ==
    /\ web_requests = 1
    /\ pc_tune = "done"
    /\ ~autotune_active
    /\ autotune_stage = 1
    /\ config \in ConfigFiles
    /\ motor_power_percent = 0

\* C13: the tick of the autotune routine that finds the 45 s timeout elapsed
\* with the flag still true ends the routine with the power at 0 and the
\* gains and PID-enable unchanged, and leaves in autotune_stage a value that
\* is neither the idle value 0 nor the Complete value 2.
C13_TimedOutIsReported ==
    [][(/\ pc_tune = "loop"
        /\ autotune_active
        /\ tune.tuning_timeout <= 0
        /\ pc_tune' = "done") =>
         /\ motor_power_percent' = 0
         /\ config' = config
         /\ autotune_stage' \notin {0, 2}]_vars

----------------------------------------------------------------------------
(* Claims on the configuration (SpecParam) *)

\* C14: whatever configuration the control surface has stored, the main loop
\* is never left by an exception: the program never ends with its tasks.
C14_LoopNeverAborts == pc_main # "aborted"

\* C15: the mapping the main loop and the routines read and write and the
\* mapping the control surface reads, writes and saves hold the same values.
C15_SharedConfiguration == config = config_manager_config

----------------------------------------------------------------------------
(* Claims on the autotune result and the gains (SpecTune) *)

\* the swing of the RPM samples up to the one a tick of the loop takes, and
\* the swing of the power
C12_DeltaRpm ==
    Max(tune.max_rpm_in_oscillation, current_rpm')
    - Min(tune.min_rpm_in_oscillation, current_rpm')

C12_DeltaPower == tune.autotune_power_high - tune.autotune_power_low

\* a tick of the autotune loop that takes a sample after the settle window and
\* finds the oscillation
C12_Oscillating ==
    /\ pc_tune = "loop"
    /\ tune_sleep = 0
    /\ (tune_sleep' > 0 \/ pc_tune' = "done")
    /\ autotune_active
    /\ tune.tuning_timeout > 0
    /\ current_rpm' > 10
    /\ tune.last_rpm_sample_time <= -100
    /\ tune.autotune_start_time < -10000
    /\ 10 * C12_DeltaRpm > tune.autotune_target_rpm

\* C12: a tick of the autotune loop that takes a sample more than 10 s after
\* the spin-up and finds the swing max - min above 10% of the target RPM writes
\* kp = 0.6 Ku, ki = kp / (Pu / 2), kd = kp Pu / 8 (Ku = power swing over RPM
\* swing, Pu = 2 s, rounded to 3 decimals), sets pid_enabled, zeroes the power
\* and ends the routine with stage 2 and the flag false; and no other step
\* changes a gain or pid_enabled.
C12_AutotuneWritesGains ==
    /\ [][C12_Oscillating =>
            /\ 2 * (config'.kp * C12_DeltaRpm - 600 * C12_DeltaPower) <= C12_DeltaRpm
            /\ 2 * (600 * C12_DeltaPower - config'.kp * C12_DeltaRpm) <= C12_DeltaRpm
            /\ config'.ki = config'.kp
            /\ 2 * (config'.kd * C12_DeltaRpm - 150 * C12_DeltaPower) <= C12_DeltaRpm
            /\ 2 * (150 * C12_DeltaPower - config'.kd * C12_DeltaRpm) <= C12_DeltaRpm
            /\ config'.pid_enabled
            /\ motor_power_percent' = 0
            /\ autotune_stage' = 2
            /\ ~autotune_active'
            /\ pc_tune' = "done"]_vars
    /\ [][(\/ config'.kp # config.kp
           \/ config'.ki # config.ki
           \/ config'.kd # config.kd
           \/ config'.pid_enabled # config.pid_enabled) => C12_Oscillating]_vars

\* the autotune run of the power-up has completed and written its gains
C12_Witness ==
    /\ autotune_stage = 2
    /\ pc_tune = "done"
    /\ ~autotune_active
    /\ config.pid_enabled
    /\ config.kp # 500
    /\ motor_power_percent = 0

\* a main-loop tick that runs the pedal-driven logic
C17_MainTick ==
    /\ pc_main \in {"start", "tick"}
    /\ main_sleep = 0
    /\ ~max_rpm_calibration_active
    /\ ~autotune_active
    /\ (main_sleep' > 0 \/ pc_main' # pc_main)

C17_Gains(pid) == <<pid[1].kp, pid[1].ki, pid[1].kd>>

\* C17: the gains of the controller change only in a main-loop tick that runs
\* the pedal-driven logic, and the controller that tick leaves has no integral,
\* no previous error, the time base of the tick and a soft-start setpoint of
\* at most one ramp step; every such tick leaves a controller whose gains are
\* the configuration's, which are the cached ones.
C17_GainsChangeWithReset ==
    /\ [][(/\ pid_controller' # None
           /\ \/ pid_controller = None
              \/ C17_Gains(pid_controller') # C17_Gains(pid_controller)) =>
            /\ C17_MainTick
            /\ pid_controller'[1]._integral = 0
            /\ pid_controller'[1]._prev_error = 0
            /\ pid_controller'[1]._last_time = ticks_ms
            /\ pid_controller'[1]._soft_start_current_setpoint
                   * config.soft_start_ramp_steps
                  <= config.max_rpm_setting * PScale]_vars
    /\ [][C17_MainTick =>
            /\ C17_Gains(pid_controller') = <<config.kp, config.ki, config.kd>>
            /\ <<last_pid_kp', last_pid_ki', last_pid_kd'>>
                  = <<<<config.kp>>, <<config.ki>>, <<config.kd>>>>]_vars

\* the pedal drives the PID path with the gains the autotune run wrote
C17_Witness ==
    /\ autotune_stage = 2
    /\ config.pid_enabled
    /\ is_pedal_pressed
    /\ pid_controller # None
    /\ pid_controller[1].kp = config.kp
    /\ pid_controller[1].kp # 500
    /\ pid_controller[1]._integral # 0

----------------------------------------------------------------------------
(* Claims on the PID path after a pause (SpecPause) *)

\* the longest time between two consecutive ticks of the pedal-driven logic
C18_TickPeriodMs == Max(RunSleepMs, config.soft_start_time_step_ms) + MainSleepMs

\* a main-loop tick that calls update with the pedal held since an earlier
\* tick, on a controller that was neither updated nor reset in the last tick
\* period and is not made anew in this tick
C18_UpdateAfterPause ==
    /\ C17_MainTick
    /\ config.pid_enabled
    /\ is_pedal_pressed
    /\ is_pedal_pressed'
    /\ pc_main' = "tick"
    /\ ~GainsChanged
    /\ ticks_diff(ticks_ms, pid_controller[1]._last_time) > C18_TickPeriodMs

\* C18: an update call the PID path makes after a pause of the pedal-driven
\* logic finds the controller reset: its integral and its previous error are 0.
C18_ResetOnResume ==
    [][C18_UpdateAfterPause =>
         /\ pid_controller[1]._integral = 0
         /\ pid_controller[1]._prev_error = 0]_vars

-----------------------------------------------------------------------------
(* Claims on the soft-start ramp (SpecRamp) *)

\* a main-loop tick in soft start that reads pedal_value from the pedal
C19_SoftStartTick(pedal_value) ==
    /\ C17_MainTick
    /\ pedal_value > 1000
    /\ ~is_pedal_pressed \/ soft_start_active
    /\ is_pedal_pressed'
    /\ pc_main' = "tick"
    /\ target_rpm_setpoint' =
           get_target_rpm_from_pedal(pedal_value, config.max_rpm_setting,
                                     config.max_motor_rpm)

\* the target of the ramp: RPM on the PID path, power percent on the open-loop path
C19_Target(pedal_value) ==
    IF config.pid_enabled
    THEN PScale * get_target_rpm_from_pedal(pedal_value, config.max_rpm_setting,
                                            config.max_motor_rpm)
    ELSE OpenLoopTargetPower(pedal_value, config)

\* the ramp value the tick starts from and the one it leaves
C19_RampBefore ==
    IF ~is_pedal_pressed \/ (config.pid_enabled /\ GainsChanged) THEN 0
    ELSE IF config.pid_enabled THEN pid_controller[1]._soft_start_current_setpoint
    ELSE current_soft_start_power

C19_RampAfter ==
    IF config.pid_enabled
    THEN pid_controller'[1]._soft_start_current_setpoint
    ELSE current_soft_start_power'

\* C19: in soft start with the pedal where it was in the tick before, a tick
\* raises the ramp value by exactly target/rampSteps, so the value grows in
\* every tick and the soft start ends in the tick that brings it to the target
\* (the rampSteps-th one) and in no earlier one.
C19_RampStepIsTargetShare ==
    [][\A pedal_value \in RampPedalInputs :
         ( /\ C19_SoftStartTick(pedal_value)
           /\ is_pedal_pressed =>
                 target_rpm_setpoint =
                     get_target_rpm_from_pedal(pedal_value, config.max_rpm_setting,
                                               config.max_motor_rpm) )
         => /\ (C19_RampAfter - C19_RampBefore) * config.soft_start_ramp_steps
                   = C19_Target(pedal_value)
            /\ C19_RampAfter > C19_RampBefore
            /\ soft_start_active' <=> C19_RampAfter < C19_Target(pedal_value)]_vars

\* C20: in every soft-start tick, on either path and wherever the pedal was in
\* the tick before, the ramp value the tick hands to the controller update or
\* to the power setter is at most the target computed from the pedal read in
\* that tick, and the open-loop path commands exactly that ramp value.
C20_RampWithinTarget ==
    [][\A pedal_value \in RampPedalInputs :
         C19_SoftStartTick(pedal_value)
         => /\ C19_RampAfter <= C19_Target(pedal_value)
            /\ ~config.pid_enabled => motor_power_percent' = C19_RampAfter]_vars

\* an open-loop soft start in which the pedal moved between half way and fully
\* down: two ticks at the full target and one at the half target
C20_Witness ==
    /\ ~config.pid_enabled
    /\ is_pedal_pressed
    /\ soft_start_active
    /\ target_rpm_setpoint = 500
    /\ current_soft_start_power = 56250
    /\ motor_power_percent = 56250

\* the ramp value of the path in use after the pass
C21_Ramp ==
    IF config.pid_enabled
    THEN pid_controller[1]._soft_start_current_setpoint
    ELSE current_soft_start_power

\* the pass that ends the soft start with the pedal held is a pass of the
\* pedal-driven logic whose ramp value has come to the target of that pass
C21_LeftAtTarget ==
    (soft_start_active /\ ~soft_start_active' /\ is_pedal_pressed')
    => /\ C17_MainTick
       /\ \E pedal_value \in RampPedalInputs :
            /\ C19_SoftStartTick(pedal_value)
            /\ C19_RampAfter = C19_Target(pedal_value)

\* the soft start goes on only below the target and with a ramp value that
\* has grown, so that it ends while the pedal is held
C21_GoesOnBelowTarget ==
    \A pedal_value \in RampPedalInputs :
       (C19_SoftStartTick(pedal_value) /\ soft_start_active')
       => /\ C19_RampAfter < C19_Target(pedal_value)
          /\ C19_RampAfter > C19_RampBefore

\* C21: between a press of the pedal and its release the soft-start flag is
\* set in the pass that sees the press and in no later one; it is cleared
\* with the pedal held only in the pass whose ramp value reaches the target,
\* and a pass that leaves the flag set has raised the ramp value and leaves
\* it below the target.
C21_SoftStartLeftOnce ==
    /\ [][(~soft_start_active /\ soft_start_active')
          => (~is_pedal_pressed /\ is_pedal_pressed' /\ press_ticks' = 1)]_vars
    /\ [][C21_LeftAtTarget]_vars
    /\ [][C21_GoesOnBelowTarget]_vars

\* a press in which the soft start has ended and the pedal has moved on to a
\* higher target afterwards, on either path
C21_Witness ==
    /\ is_pedal_pressed
    /\ ~soft_start_active
    /\ pedal_presses = 1
    /\ press_ticks > 2
    /\ target_rpm_setpoint = 500
    /\ IF config.pid_enabled
       THEN pid_controller[1]._soft_start_current_setpoint = 250 * PScale
       ELSE current_soft_start_power = 45 * PScale

-----------------------------------------------------------------------------
(* Claims on the soft start with the pedal held (SpecHeld) *)

\* the set-point the pass hands to the update call of the controller
C22_Commanded ==
    IF SoftStartInEffect
    THEN pid_controller'[1]._soft_start_current_setpoint
    ELSE target_rpm_setpoint' * PScale

\* a pass of the pedal-driven logic with the pedal down
C22_PressedTick ==
    /\ C17_MainTick
    /\ is_pedal_pressed'
    /\ pc_main' = "tick"

\* C22: with the pedal pressed and held where the target is 300 RPM and 50
\* ramp steps, every pass from the press onward hands the controller a
\* set-point of at most 300 RPM, and the 50th pass and every later one hand
\* it exactly 300 RPM.
C22_HeldPedalReachesTarget ==
    [][C22_PressedTick
       => /\ target_rpm_setpoint' = 300
          /\ config.soft_start_ramp_steps = 50
          /\ C22_Commanded <= 300 * PScale
          /\ press_ticks' >= 50 => C22_Commanded = 300 * PScale]_vars

\* the pedal is still held in the 50th pass after the press
C22_Witness ==
    /\ is_pedal_pressed
    /\ press_ticks = 50
    /\ target_rpm_setpoint = 300
    /\ config.soft_start_ramp_steps = 50
    /\ ~soft_start_active
    /\ pid_controller[1]._soft_start_current_setpoint = 300 * PScale

----------------------------------------------------------------------------
(* Claims on the power mapper called on its own (SpecMapper) *)

\* C23: after any sequence of set_motor_power calls the stored power percent is
\* within [0, 100], it is the last commanded percent clamped to [0, 100], and
\* the target delay is within [500, 9800] microseconds exactly when that
\* percent is above 5 and an off value not below the half cycle exactly when
\* it is at most 5.
C23_PowerAndDelayInRange ==
    /\ 0 <= motor_power_percent /\ motor_power_percent <= 100 * PScale
    /\ returned # <<>> /\ returned[Len(returned)].call.name = "set_motor_power"
           => motor_power_percent
                  = Max(0, Min(100 * PScale, returned[Len(returned)].call.args[1]))
    /\ motor_power_percent > 5 * PScale
           <=> (/\ min_fire_delay_us <= _target_triac_delay_us
                /\ _target_triac_delay_us <= ac_half_cycle_time_us - 200)
    /\ motor_power_percent <= 5 * PScale
           <=> _target_triac_delay_us >= ac_half_cycle_time_us

\* a call with a negative percent was followed by a call with 5.5%, which
\* stored a delay near the upper end of the live range
C23_Witness ==
    /\ Len(returned) = 2
    /\ returned[1].call.name = "set_motor_power"
    /\ returned[1].call.args[1] < 0
    /\ returned[2].call.args[1] = 5500
    /\ motor_power_percent = 5500
    /\ _target_triac_delay_us > 9000
    /\ _target_triac_delay_us <= 9800

\* the percent of the i-th call made and the delay it stored
C24_Percent(i) == returned[i].call.args[1]

C24_Delay(i) == returned[i].value

\* C24: the delay set_motor_power stores is non-increasing in the percent over
\* [0, 100] (of two calls the one with the larger percent stores no larger a
\* delay); for a percent above 5 it is minFireDelay + (maxEffectiveDelay -
\* minFireDelay) * (100 - percent) / 100 truncated to an integer, and 100%
\* gives exactly minFireDelay.
C24_DelayOfPercent ==
    \A i \in 1 .. Len(returned) :
        returned[i].call.name = "set_motor_power"
        /\ 0 <= C24_Percent(i) /\ C24_Percent(i) <= 100 * PScale
        => /\ \A j \in 1 .. Len(returned) :
                  C24_Percent(j) >= 0 /\ C24_Percent(j) <= C24_Percent(i)
                  => C24_Delay(i) <= C24_Delay(j)
           /\ C24_Percent(i) > 5 * PScale
                  => C24_Delay(i)
                         = min_fire_delay_us
                           + ((max_effective_delay_us - min_fire_delay_us)
                              * (100 * PScale - C24_Percent(i))) \div (100 * PScale)
           /\ C24_Percent(i) = 100 * PScale => C24_Delay(i) = min_fire_delay_us

\* the arguments of the i-th call of get_target_rpm_from_pedal
C25_Pedal(i) == returned[i].call.args[1]

C25_MaxRpmSetting(i) == returned[i].call.args[2]

C25_MaxMotorRpm(i) == returned[i].call.args[3]

\* C25: get_target_rpm_from_pedal returns 0 for every pedal reading below the
\* dead-zone threshold, a value within [0, min(max_rpm_setting, max_motor_rpm)]
\* for every other reading up to the maximum of the converter, and of two
\* calls with the same non-negative settings the one with the larger reading
\* returns no smaller a value.
C25_PedalToTargetRpm ==
    \A i \in 1 .. Len(returned) :
        returned[i].call.name = "get_target_rpm_from_pedal"
        => /\ C25_Pedal(i) < PedalThreshold => returned[i].value = 0
           /\ 0 <= returned[i].value
           /\ returned[i].value <= Min(C25_MaxRpmSetting(i), C25_MaxMotorRpm(i))
           /\ \A j \in 1 .. Len(returned) :
                  C25_Pedal(j) <= C25_Pedal(i) => returned[j].value <= returned[i].value

\* with a setting of 3000 RPM and a motor of 2000 RPM the pedal part way down
\* returned a target between the two and the pedal fully down the
\* maximum of the motor
C25_Witness ==
    /\ Len(returned) = 2
    /\ returned[1].call.name = "get_target_rpm_from_pedal"
    /\ C25_Pedal(1) = 33268 /\ C25_Pedal(2) = 65535
    /\ C25_MaxRpmSetting(1) = 3000 /\ C25_MaxMotorRpm(1) = 2000
    /\ returned[1].value = 1500
    /\ returned[2].value = 2000

\* the sum of the two calibrated percents of the i-th open-loop computation
C26_MaxEffective(i) == returned[i].call.args[2] + returned[i].call.args[3]

\* the pedal reading of the i-th open-loop computation over its usable range,
\* in 1/PScale
C26_Normalized(i) ==
    ((returned[i].call.args[1] - PedalThreshold) * PScale)
        \div (adc_max_value - PedalThreshold)

\* C26: on the open-loop path the target power for a pedal reading above the
\* press threshold is the pedal normalized over its usable range times
\* (free-running percent + load-offset percent), capped at 100; it is never
\* above min(100, free-running percent + load-offset percent) and of two
\* readings with the same configuration the larger gives no smaller a target.
C26_OpenLoopTarget ==
    \A i \in 1 .. Len(returned) :
        returned[i].call.name = "open_loop_target_power"
        /\ returned[i].call.args[1] > PedalThreshold
        => /\ returned[i].value
                  = Min(C26_Normalized(i) * C26_MaxEffective(i), 100 * PScale)
           /\ returned[i].value <= Min(100, C26_MaxEffective(i)) * PScale
           /\ \A j \in 1 .. Len(returned) :
                  returned[j].call.args[1] <= returned[i].call.args[1]
                  => returned[j].value <= returned[i].value

\* with 80% + 30% calibrated the pedal half way down gave 55% and the pedal
\* fully down the cap of 100%
C26_Witness ==
    /\ Len(returned) = 2
    /\ returned[1].call.name = "open_loop_target_power"
    /\ returned[1].call.args = <<33268, 80, 30>>
    /\ returned[2].call.args = <<65535, 80, 30>>
    /\ returned[1].value = 55 * PScale
    /\ returned[2].value = 100 * PScale

----------------------------------------------------------------------------
(* Claims on the PID controller called on its own (SpecController) *)

\* the time since the last update that took effect, before a call
C27_ElapsedMs == ticks_diff(ticks_ms, pid_controller[1]._last_time)

\* an update call of a controller with kp = 1, ki = 0, kd = 0 after some time
C27_ProportionalUpdate ==
    /\ PID_update_call
    /\ pid_controller[1].kp = PScale
    /\ pid_controller[1].ki = 0
    /\ pid_controller[1].kd = 0
    /\ C27_ElapsedMs > 0

\* setpoint - measured of the call at the head of pending_calls
C27_Error == Head(pending_calls).args[1] - Head(pending_calls).args[2]

\* C27: with kp = 1, ki = 0, kd = 0 every PID update call with nonzero elapsed
\* time returns min(100, max(0, setpoint - measured)); update(100, 80) on the
\* first call returns 20.
C27_ProportionalOutput ==
    [][C27_ProportionalUpdate
       => returned'[Len(returned')].value
              = Min(100 * PScale, Max(0, C27_Error))]_vars

\* a controller with kp = 1, ki = 0, kd = 0 was made, 20 ms passed and its
\* first call update(100, 80) returned 20
C27_Witness ==
    /\ Len(returned) = 3
    /\ returned[1].call.name = "PID"
    /\ returned[1].call.args = <<PScale, 0, 0>>
    /\ returned[2].call.args = <<RunSleepMs>>
    /\ returned[3].call.name = "PID.update"
    /\ returned[3].call.args = <<100 * PScale, 80 * PScale>>
    /\ returned[3].value = 20 * PScale

\* an update call with zero elapsed time
C28_UpdateAtOnce == PID_update_call /\ C27_ElapsedMs = 0

\* the i-th call made is an update with zero elapsed time that follows
\* another one with the same arguments
C28_RepeatedAtOnce(i) ==
    /\ i > 4
    /\ returned[i].call.name = "PID.update"
    /\ returned[i - 1].call = Call("sleep_ms", <<0>>, 0)
    /\ returned[i - 2].call = returned[i].call
    /\ returned[i - 3].call = Call("sleep_ms", <<0>>, 0)

\* C28: a PID update call with zero elapsed time raises nothing, returns the
\* previous error and leaves integral, previous error and last-update time
\* unchanged; two such calls in a row with identical arguments return the
\* same value.
C28_UpdateAtOnceChangesNothing ==
    /\ [][C28_UpdateAtOnce
          => /\ returned'[Len(returned')].value = pid_controller[1]._prev_error
             /\ pid_controller' = pid_controller]_vars
    /\ [](\A i \in 1 .. Len(returned) :
              C28_RepeatedAtOnce(i) => returned[i].value = returned[i - 2].value)

\* an update 20 ms after the controller was made left an error of 50 RPM;
\* a second update at the same instant with other arguments returned that
\* error and left it in the controller
C28_Witness ==
    /\ Len(returned) = 5
    /\ returned[2].call.args = <<RunSleepMs>>
    /\ returned[3].call.name = "PID.update"
    /\ returned[3].call.args = <<300 * PScale, 250 * PScale>>
    /\ returned[4].call.args = <<0>>
    /\ returned[5].call.args = <<100 * PScale, 400 * PScale>>
    /\ returned[5].value = 50 * PScale
    /\ pid_controller[1]._prev_error = 50 * PScale
    /\ pid_controller[1]._last_time = ticks_ms

----------------------------------------------------------------------------
(* Claims on the speed sensor on its own (SpecSensor) *)

\* the time since the previous call of calculate_rpm
C29_ElapsedMs == ticks_diff(ticks_ms, _last_rpm_calc_time)

\* the value the call of calculate_rpm that is being made returns
C29_Returned == returned'[Len(returned')].value

\* C29: calculate_rpm returns int(pulses * 1000 * 60 / (elapsedMs *
\* pulsesPerRevolution)) for the pulses accepted since its previous call when
\* the elapsed time is positive (30 pulses over 1000 ms give 1800, no pulses
\* give 0) and then resets the pulse counter; with zero elapsed time it
\* returns 0.
C29_RpmOfWindow ==
    [][calculate_rpm_call
       => IF C29_ElapsedMs > 0
          THEN /\ C29_Returned
                      = (pulse_count * 1000 * 60) \div (C29_ElapsedMs * RPM_POLES)
               /\ pulse_count' = 0
          ELSE C29_Returned = 0]_vars

\* the time since the last accepted pulse
C30_Age == ticks_diff(now_us, last_pulse_time)

\* C30: the pulse interrupt handler counts a pulse if and only if at least 100
\* microseconds have elapsed since the previous accepted pulse; a pulse
\* arriving earlier leaves the pulse counter and the time of the last
\* accepted pulse unchanged.
C30_DebouncedCount ==
    [][rpm_pulse_isr /\ last_pulse_time > 0
       => /\ (pulse_count' = pulse_count + 1) <=> (C30_Age >= 100)
          /\ C30_Age < 100 => UNCHANGED <<pulse_count, last_pulse_time>>]_vars

----------------------------------------------------------------------------
(* Claims on the loaded configuration (SpecStored) *)

\* the stored configuration load_config read at power-up
C31_Stored == returned[1].call.args[1]

\* the stored configuration has no value for the key
C31_Absent(key) ==
    C31_Stored.kind # "object" \/ key \notin DOMAIN C31_Stored.object

\* C31: after load_config, for a stored configuration that is missing, not
\* JSON or a JSON object lacking some keys, the configuration holds every
\* parameter of the default configuration, with the default wherever the
\* stored value was absent and the stored value elsewhere; no later write of
\* the control surface removes a key, so every lookup of the control loop
\* finds a value.
C31_DefaultsForAbsentKeys ==
    /\ DOMAIN DEFAULT_CONFIG \subseteq DOMAIN config
    /\ DOMAIN DEFAULT_CONFIG \subseteq DOMAIN config_manager_config
    /\ pc_main = "start"
           => \A key \in DOMAIN DEFAULT_CONFIG :
                  /\ config_manager_config[key] = config[key]
                  /\ config[key] = IF C31_Absent(key) THEN DEFAULT_CONFIG[key]
                                   ELSE C31_Stored.object[key]

\* the stored object had three keys; the control loop runs with the stored
\* PID mode and speed limit and the default gain, the pedal is down, and a
\* parameter write has stored another gain without removing a key
C31_Witness ==
    /\ C31_Stored.kind = "object"
    /\ DOMAIN C31_Stored.object
           = {"soft_start_ramp_steps", "pid_enabled", "max_rpm_setting"}
    /\ config.pid_enabled /\ config.max_rpm_setting = 300
    /\ config.kp = DEFAULT_CONFIG.kp
    /\ config_manager_config.kp = 600
    /\ DOMAIN config_manager_config = DOMAIN DEFAULT_CONFIG
    /\ is_pedal_pressed
    /\ pid_controller # None

----------------------------------------------------------------------------
(* Claims on the reset of the PID controller (SpecController) *)

\* the controller before a call with its state zeroed and its time stamped
C32_Zeroed ==
    [ pid_controller[1] EXCEPT !._integral = 0, !._prev_error = 0,
                                !._soft_start_current_setpoint = 0,
                                !._last_time = ticks_ms ]

\* the last call made was a reset and no time has passed since
C32_JustReset ==
    /\ Len(returned) >= 2
    /\ returned[Len(returned)].call = Call("sleep_ms", <<0>>, 0)
    /\ returned[Len(returned) - 1].call.name = "PID.reset"

\* C32: PID reset() sets integral, previous error and soft-start set-point to 0
\* and re-stamps the last-update time whatever the prior state, leaves kp, ki
\* and kd unchanged, and is idempotent: a second reset at the same time leaves
\* the state as the first did.
C32_ResetZeroesState ==
    /\ [][PID_reset_call => pid_controller' = <<C32_Zeroed>>]_vars
    /\ [][PID_reset_call /\ C32_JustReset => pid_controller' = pid_controller]_vars

\* a controller with an error of 50 RPM, an integral, a ramped set-point and
\* a last update 20 ms back was reset twice at the same instant and holds
\* zeroes, the current time and its gains
C32_Witness ==
    /\ Len(returned) = 8
    /\ returned[1].call = Call("PID", <<500, 10, 50>>, 0)
    /\ returned[2].call.args = <<RunSleepMs>>
    /\ returned[3].call = Call("PID.update", <<300 * PScale, 250 * PScale>>, 0)
    /\ returned[4].call.args = <<10 * PScale>>
    /\ returned[5].call.args = <<RunSleepMs>>
    /\ returned[7].call.args = <<0>>
    /\ returned[8].call.name = "PID.reset"
    /\ pid_controller = <<PID(500, 10, 50)>>

----------------------------------------------------------------------------
(* Claims on the stop sequence (SpecStored) *)

\* the reading of the sensor of the configured default stop position
C33_SelectedReports(needle_up, needle_down) ==
    IF config.stop_position_default = "DOWN" THEN needle_down
    ELSE IF config.stop_position_default = "UP" THEN needle_up
    ELSE FALSE

\* a pass of the polling loop that read the two sensors as given and left the
\* loop before the timeout
C33_PollExit(needle_up, needle_down) ==
    /\ pc_main = "stop_poll"
    /\ main_sleep = 0
    /\ ticks_diff(ticks_ms, stop_timeout) < 0
    /\ \E pulses \in PulseInputs :
           main_loop_stop_poll_pass(pulses, needle_up, needle_down)
    /\ pc_main' = "tick"

\* the pass that saw the pedal released, read the two sensors as given and
\* did not enter the polling loop
C33_ReleaseExit(needle_up, needle_down) ==
    /\ pc_main = "tick"
    /\ main_sleep = 0
    /\ is_pedal_pressed
    /\ ~(max_rpm_calibration_active \/ autotune_active)
    /\ \E pulses \in PulseInputs :
           main_loop_pass(pulses, 0, needle_up, needle_down)
    /\ pc_main' = "tick"

\* C33: the stop sequence polls the sensor selected by the configured default
\* stop position, the needle-down sensor exactly when it is DOWN and the
\* needle-up sensor exactly when it is UP; the polling loop exits before the
\* timeout only when that sensor reports true, never because of the other one.
C33_PollsSelectedSensor ==
    /\ [](pc_main = "stop_poll"
            => /\ target_sensor_func = "DOWN" <=> config.stop_position_default = "DOWN"
               /\ target_sensor_func = "UP" <=> config.stop_position_default = "UP")
    /\ [][\A needle_up \in BOOLEAN, needle_down \in BOOLEAN :
             C33_PollExit(needle_up, needle_down)
             \/ C33_ReleaseExit(needle_up, needle_down)
             => C33_SelectedReports(needle_up, needle_down)]_vars

\* with the stop position UP the loop polls the needle-up sensor at the creep
\* power and has been polling for a while
C33_Witness ==
    /\ pc_main = "stop_poll"
    /\ config.stop_position_default = "UP"
    /\ target_sensor_func = "UP"
    /\ motor_power_percent = StopPowerPercent * PScale
    /\ stop_timeout < StopTimeoutMs - 2 * StopPollMs
    /\ stop_timeout > 0

----------------------------------------------------------------------------
(* Claims on the power without an operator action (Spec) *)

\* C34: the motor is powered only on operator action: from power-up, as long
\* as the pedal is never pressed and no request of the control surface is
\* made, the commanded power is 0 wherever a task yields and neither mode flag
\* becomes true (so that the firing task, which pulses the gate only for a
\* power above 5%, issues no pulse).
C34_PowerOnlyOnOperatorAction ==
    pedal_presses = 0 /\ web_requests = 0
    => /\ motor_power_percent = 0
       /\ ~autotune_active
       /\ ~max_rpm_calibration_active

\* the commanded power is 0 and was not computed by the controller from the
\* pedal: the open-loop path never commands 0 for a pressed pedal
C35_ForcedToZero ==
    /\ motor_power_percent = 0
    /\ ~config.pid_enabled \/ power_writer # "main" \/ ~is_pedal_pressed

\* a main-loop tick in which the pedal-driven path commands power
C35_PedalCommandsPower ==
    /\ C17_MainTick
    /\ is_pedal_pressed'
    /\ pc_main' = "tick"
    /\ power_writer' = "main"
    /\ motor_power_percent' > 0

\* C35: every rise of the pedal-driven commanded power from 0 goes through a
\* soft-start ramp that starts at zero: when the power was forced to 0 and the
\* pedal-driven path commands power again, that tick is a soft-start tick
\* whose ramp starts from 0, so that the commanded value is one ramp increment
\* and not the full target, also when the pedal stayed pressed.
C35_RiseThroughSoftStart ==
    [][C35_ForcedToZero /\ C35_PedalCommandsPower
       => /\ ~is_pedal_pressed \/ soft_start_active
          /\ C19_RampBefore = 0]_vars

----------------------------------------------------------------------------
(* Claims on the place of the gate pulse (SpecFire) *)

\* C36: a gate pulse issued for the reference zero crossing at time t lies
\* inside that crossing's own half-cycle: while the gate is held high for the
\* crossing current_cycle_zc_time, the pulse began no earlier than
\* t + TargetFiringDelay and it ends before t + halfCycle, however late the
\* tick that handles the crossing was resumed.
C36_PulseInOwnHalfCycle ==
    fire_pc = "pulse"
    => /\ pulse_end_us - PulseWidthUs >= current_cycle_zc_time + _target_triac_delay_us
       /\ pulse_end_us < current_cycle_zc_time + ac_half_cycle_time_us

----------------------------------------------------------------------------
(* Claims on the pulse interrupt against calculate_rpm (SpecIrq) *)

\* C37: no accepted pulse is lost or counted twice: for every interleaving of
\* the pulse interrupt with calculate_rpm, whenever calculate_rpm is not in
\* the middle of a call, the pulses the handler has accepted are the pulses
\* that went into one returned sample plus the pulses still in the counter.
C37_EveryPulseInOneSample ==
    pc_rpm = "idle" => pulses_accepted = pulses_sampled + pulse_count

----------------------------------------------------------------------------
(* Claims on the gate at the yields (SpecFire) *)

\* C38: the gate output is high only inside a firing pulse: wherever the
\* firing task is suspended at its yield, which is the only time another
\* cooperative task runs or yields, the gate output is low, and a high gate
\* means that fire_triac is holding its pulse.
C38_GateLowAtYield ==
    /\ fire_pc = "yield" => triac_gate_pin = 0
    /\ triac_gate_pin = 1 => fire_pc = "pulse"

\* the firing task has yielded after a pulse of the current half-cycle, with
\* the power still commanded
C38_Witness ==
    /\ fire_pc = "yield"
    /\ pulses_in_half_cycle >= 1
    /\ pulses_since_set >= 1
    /\ ~DeadZone(motor_power_percent)
    /\ triac_gate_pin = 0

----------------------------------------------------------------------------
(* Claims on the range of the controller output (SpecController) *)

\* C39: every value returned by PID update is a power percentage within
\* [0, 100], for every set-point, measurement, controller state and elapsed
\* time, calls with zero elapsed time included.
C39_UpdateReturnsPercent ==
    \A i \in 1..Len(returned) :
        returned[i].call.name = "PID.update"
        => /\ returned[i].value >= 0
           /\ returned[i].value <= 100 * PScale

----------------------------------------------------------------------------
(* Claims on the exposed autotune stage (Spec) *)

\* C40: the exposed autotune stage is consistent with the autotune-active
\* flag: once the flag is false and the autotune routine has ended, whether by
\* a cancel, a force-stop, its timeout or its completion, autotune_stage no
\* longer holds the in-progress value 1.
C40_StageFollowsFlag ==
    (pc_tune = "done" /\ ~autotune_active) => autotune_stage # 1

====
